---------------------------- MODULE Spec2Model ----------------------------
(***************************************************************************)
(* A model of the cooperative value-sharing economy of kwstx/a2a.          *)
(*                                                                         *)
(* The negotiation engine (src/src/engine/negotiation.py) is modelled      *)
(* statement by statement.  Python floats are modelled as signed decimal   *)
(* fixed-point numbers with 12 fractional digits, every product and        *)
(* quotient rounded to the nearest representable value; the numbers are    *)
(* kept as little-endian sequences of base-10^4 limbs because a single     *)
(* TLC integer has 32 bits.  For the magnitudes used here (amounts up to   *)
(* 10^4, tolerances down to 10^-7) this arithmetic reproduces the round    *)
(* counts and the 4-decimal results of the float implementation.           *)
(***************************************************************************)
EXTENDS Integers, Sequences, FiniteSets, TLC

(***************************************************************************)
(* Unsigned multi-limb arithmetic (magnitudes).                            *)
(***************************************************************************)
Base == 10^4

\* The number of limbs that hold the fractional digits (12 = 3 * 4).
FracLimbs == 12 \div 4

Limb(a, i) == IF i <= Len(a) THEN a[i] ELSE 0

RECURSIVE MTrim(_)
MTrim(a) ==
    IF a = <<>> THEN a
    ELSE IF a[Len(a)] = 0 THEN MTrim(SubSeq(a, 1, Len(a) - 1))
    ELSE a

RECURSIVE MCmpFrom(_, _, _)
MCmpFrom(a, b, i) ==
    IF i = 0 THEN 0
    ELSE IF a[i] > b[i] THEN 1
    ELSE IF a[i] < b[i] THEN -1
    ELSE MCmpFrom(a, b, i - 1)

MCmp(a, b) ==
    IF Len(a) > Len(b) THEN 1
    ELSE IF Len(a) < Len(b) THEN -1
    ELSE MCmpFrom(a, b, Len(a))

RECURSIVE MAddFrom(_, _, _, _)
MAddFrom(a, b, i, c) ==
    IF i > Len(a) /\ i > Len(b)
    THEN IF c = 0 THEN <<>> ELSE <<c>>
    ELSE LET s == Limb(a, i) + Limb(b, i) + c
         IN  <<s % Base>> \o MAddFrom(a, b, i + 1, s \div Base)

MAdd(a, b) == MAddFrom(a, b, 1, 0)

RECURSIVE MSubFrom(_, _, _, _)
MSubFrom(a, b, i, c) ==
    IF i > Len(a) THEN <<>>
    ELSE LET s == a[i] - Limb(b, i) - c
         IN  IF s < 0 THEN <<s + Base>> \o MSubFrom(a, b, i + 1, 1)
             ELSE <<s>> \o MSubFrom(a, b, i + 1, 0)

\* a - b for a >= b
MSub(a, b) == MTrim(MSubFrom(a, b, 1, 0))

RECURSIVE MMulSmallFrom(_, _, _, _)
MMulSmallFrom(a, k, i, c) ==
    IF i > Len(a)
    THEN IF c = 0 THEN <<>> ELSE <<c>>
    ELSE LET s == a[i] * k + c
         IN  <<s % Base>> \o MMulSmallFrom(a, k, i + 1, s \div Base)

\* a * k for a single limb k
MMulSmall(a, k) == IF k = 0 THEN <<>> ELSE MMulSmallFrom(a, k, 1, 0)

MShift(a, n) == IF a = <<>> THEN a ELSE [i \in 1..n |-> 0] \o a

RECURSIVE MMulFrom(_, _, _)
MMulFrom(a, b, j) ==
    IF j > Len(b) THEN <<>>
    ELSE MAdd(MShift(MMulSmall(a, b[j]), j - 1), MMulFrom(a, b, j + 1))

MMul(a, b) == IF a = <<>> \/ b = <<>> THEN <<>> ELSE MMulFrom(a, b, 1)

RECURSIVE MFromNat(_)
MFromNat(n) == IF n = 0 THEN <<>> ELSE <<n % Base>> \o MFromNat(n \div Base)

\* The two limbs of r at and above the top limb of b, as one number.
MTop(r, b) == Limb(r, Len(b) + 1) * Base + Limb(r, Len(b))

\* The largest d <= guess with b * d <= r.
RECURSIVE MCorrect(_, _, _)
MCorrect(r, b, guess) ==
    IF MCmp(MMulSmall(b, guess), r) <= 0 THEN guess ELSE MCorrect(r, b, guess - 1)

\* The quotient digit of r by b, for r < b * Base: the quotient of the top
\* limbs is never below it.
MDigit(r, b) ==
    IF MCmp(r, b) < 0 THEN 0
    ELSE MCorrect(r, b, IF MTop(r, b) \div b[Len(b)] >= Base THEN Base - 1
                        ELSE MTop(r, b) \div b[Len(b)])

\* Long division of a by b, from the top limb of a down: r is the running
\* remainder, q the quotient limbs found so far.
RECURSIVE MDivFrom(_, _, _, _, _)
RECURSIVE MDivDigit(_, _, _, _, _, _)
MDivFrom(a, b, i, r, q) ==
    IF i = 0 THEN [q |-> MTrim(q), r |-> r]
    ELSE MDivDigit(a, b, i, MTrim(<<a[i]>> \o r), q,
                   MDigit(MTrim(<<a[i]>> \o r), b))

MDivDigit(a, b, i, r, q, d) ==
    MDivFrom(a, b, i - 1, IF d = 0 THEN r ELSE MSub(r, MMulSmall(b, d)), <<d>> \o q)

\* Quotient and remainder of a by b, b # 0.
MDivMod(a, b) == MDivFrom(a, b, Len(a), <<>>, <<>>)

\* The quotient x.q of a division by b, rounded to the nearest integer, a
\* tie away from zero.
MRoundQuotient(x, b) ==
    IF MCmp(MAdd(x.r, x.r), b) >= 0 THEN MAdd(x.q, <<1>>) ELSE x.q

\* a / b rounded to the nearest integer, for b with a top limb >= Base / 2
MDivRoundScaled(a, b) == MRoundQuotient(MDivMod(a, b), b)

\* a / b rounded to the nearest integer, b # 0: both are scaled so that the
\* top limb of b is at least Base / 2, which keeps the digit guesses close.
MDivRound(a, b) ==
    MDivRoundScaled(MMulSmall(a, Base \div (b[Len(b)] + 1)),
                    MMulSmall(b, Base \div (b[Len(b)] + 1)))

\* a / Base^n rounded to the nearest integer, a tie away from zero.
MDropRound(a, n) ==
    IF Len(a) < n THEN <<>>
    ELSE IF 2 * a[n] >= Base THEN MAdd(SubSeq(a, n + 1, Len(a)), <<1>>)
    ELSE SubSeq(a, n + 1, Len(a))

(***************************************************************************)
(* Signed fixed-point numbers: the model of a Python float.                *)
(***************************************************************************)
Z(neg, mag) == [neg |-> neg /\ mag # <<>>, mag |-> mag]

Zero == Z(FALSE, <<>>)

\* The float of a natural number n.
Fx(n) == Z(FALSE, MShift(MFromNat(n), FracLimbs))

\* n + a / 10^4 + b / 10^8 + c / 10^12, for limbs a, b, c.
FxD(n, a, b, c) == Z(FALSE, MTrim(<<c, b, a>> \o MFromNat(n)))

One == Fx(1)

FNeg(x) == Z(~x.neg, x.mag)

FAbs(x) == Z(FALSE, x.mag)

FAdd(x, y) ==
    IF x.neg = y.neg THEN Z(x.neg, MAdd(x.mag, y.mag))
    ELSE IF MCmp(x.mag, y.mag) >= 0 THEN Z(x.neg, MSub(x.mag, y.mag))
    ELSE Z(y.neg, MSub(y.mag, x.mag))

FSub(x, y) == FAdd(x, FNeg(y))

FMul(x, y) == Z(x.neg # y.neg, MDropRound(MMul(x.mag, y.mag), FracLimbs))

Square(x) == FMul(x, x)

\* x / y for y # 0
FDiv(x, y) == Z(x.neg # y.neg, MDivRound(MShift(x.mag, FracLimbs), y.mag))

FLt(x, y) ==
    IF x.neg # y.neg THEN x.neg
    ELSE IF x.neg THEN MCmp(x.mag, y.mag) > 0
    ELSE MCmp(x.mag, y.mag) < 0

FLe(x, y) == ~FLt(y, x)

FIsPos(x) == ~x.neg /\ x.mag # <<>>

\* Python's min(a, b) and max(a, b): the first argument unless the second
\* is strictly smaller (larger).
FMin(a, b) == IF FLt(b, a) THEN b ELSE a

FMax(a, b) == IF FLt(a, b) THEN b ELSE a

RECURSIVE FSumFrom(_, _)
FSumFrom(s, i) == IF i > Len(s) THEN Zero ELSE FAdd(s[i], FSumFrom(s, i + 1))

\* sum(values)
FSum(s) == FSumFrom(s, 1)

\* q, or q + 1 when the dropped fraction hi / Base + lo / Base^2 rounds up
\* (a tie goes to the even neighbour).
MHalfEven(q, hi, lo) ==
    IF hi > Base \div 2 \/ (hi = Base \div 2 /\ (lo > 0 \/ Limb(q, 1) % 2 = 1))
    THEN MAdd(q, <<1>>)
    ELSE q

\* round(x, 4): the nearest multiple of 10^-4, a tie to the even one.
Round4(x) ==
    Z(x.neg,
      MShift(MHalfEven(IF Len(x.mag) <= 2 THEN <<>> ELSE SubSeq(x.mag, 3, Len(x.mag)),
                       Limb(x.mag, 2), Limb(x.mag, 1)),
             2))

Half == FxD(0, 5000, 0, 0)

Two == Fx(2)

\* The Taylor series of exp(x) for |x| <= 1/2: s holds the term
\* x^(n-1) / (n-1)!, n and the sum of the terms before it; the series ends
\* with the first term that rounds to 0.
RECURSIVE FExpSeries(_, _)
FExpSeries(x, s) ==
    IF s.term = Zero THEN s.acc
    ELSE FExpSeries(x, [term |-> FDiv(FMul(s.term, x), Fx(s.n)),
                        n    |-> s.n + 1,
                        acc  |-> FAdd(s.acc, s.term)])

\* math.exp(x): exp(x) = exp(x / 2)^2 brings x into the range of the series.
RECURSIVE FExp(_)
FExp(x) ==
    IF FLe(FAbs(x), Half) THEN FExpSeries(x, [term |-> One, n |-> 1, acc |-> Zero])
    ELSE Square(FExp(FMul(x, Half)))

\* The series z + z^3 / 3 + z^5 / 5 + ... of atanh(z): s holds the power
\* z^k, k and the sum of the terms before it, z2 is z^2.
RECURSIVE FAtanhSeries(_, _)
FAtanhSeries(z2, s) ==
    IF s.power = Zero THEN s.acc
    ELSE FAtanhSeries(z2, [power |-> FMul(s.power, z2),
                           k     |-> s.k + 2,
                           acc   |-> FAdd(s.acc, FDiv(s.power, Fx(s.k)))])

FAtanh(z) == FAtanhSeries(Square(z), [power |-> z, k |-> 1, acc |-> Zero])

Ln2 == FxD(0, 6931, 4718, 560)

\* The float of an integer n.
FInt(n) == IF n >= 0 THEN Fx(n) ELSE FNeg(Fx(-n))

\* ln(y * 2^halvings) for y > 0: ln(y) = 2 * atanh((y - 1) / (y + 1)) for y
\* in [1/2, 2], and halving or doubling y brings it there.
RECURSIVE FLnScaled(_, _)
FLnScaled(y, halvings) ==
    IF FLt(Two, y) THEN FLnScaled(FMul(y, Half), halvings + 1)
    ELSE IF FLt(y, Half) THEN FLnScaled(FMul(y, Two), halvings - 1)
    ELSE FAdd(FMul(Two, FAtanh(FDiv(FSub(y, One), FAdd(y, One)))),
              FMul(FInt(halvings), Ln2))

\* math.log(y) for y > 0
FLn(y) == FLnScaled(y, 0)

\* x ** p for x >= 0 and p > 0
FPow(x, p) == IF x = Zero THEN Zero ELSE FExp(FMul(p, FLn(x)))

(***************************************************************************)
(* The state: the negotiation engine with one session, and the surplus     *)
(* engine.                                                                 *)
(***************************************************************************)
VARIABLES
    synergy_multiplier,     \* CooperativeSurplusEngine.synergy_multiplier
    dependency_risk_factor, \* CooperativeSurplusEngine.dependency_risk_factor
    pattern_modifiers,      \* the per-pattern scalars of the surplus engine
    projections,            \* argument of the last calculate_cluster_surplus
    surplus_pool,           \* the pool it returned
    max_iterations,         \* AutonomousNegotiationEngine.max_iterations
    equilibrium_tolerance,  \* AutonomousNegotiationEngine.equilibrium_tolerance
    fairness_weight,        \* AutonomousNegotiationEngine.fairness_weight
    pc,                     \* position of the negotiate_splits call
    pool,                   \* argument pool of the call
    claims,                 \* argument claims of the call
    objective_targets,      \* local of negotiate_splits
    current_allocations,    \* local of negotiate_splits
    prev_variance,          \* local of negotiate_splits
    history,                \* local of negotiate_splits
    converged,              \* local of negotiate_splits
    result,                 \* value returned by the call
    first,                  \* the session remembered, and whether a session
                            \* with other arguments has started since
    recalibration,          \* the recalibrate_synergy_model call in progress
    risk_high,              \* stress_test_graph.py: surplus at the high risk factor
    risk_low,               \* stress_test_graph.py: surplus at the low risk factor
    surplus_pools,          \* EconomyProtocol.surplus_pools
    negotiation_results,    \* EconomyProtocol.negotiation_results
    sessions,               \* negotiate_splits calls made over each stored pool
    reply,                  \* value returned by the last protocol call
    vector,                 \* outcome of the last ImpactVector(...)
    entries,                \* ContextualizedLedgerEngine.entries
    agent_balances,         \* ContextualizedLedgerEngine._agent_balances
    funds,                  \* CooperativeInvestingEngine.funds
    returned,               \* value returned by the last ledger or fund call
    workers,                \* stress_test_ledger.py: the threads of the race test
    serialized,             \* test_forecasting.py: a projection, its dict and
                            \* the projection made from the dict
    causal_rules,           \* ForecastingLayer.causal_rules
    rule_updates,           \* update_causal_rule calls made
    rule_call               \* arguments of the last update_causal_rule call

engineVars == <<max_iterations, equilibrium_tolerance, fairness_weight>>

callVars == <<pool, claims>>

surplusVars == <<synergy_multiplier, dependency_risk_factor, pattern_modifiers,
                 projections, surplus_pool>>

negotiationVars == <<max_iterations, equilibrium_tolerance, fairness_weight, pc,
                     pool, claims, objective_targets, current_allocations,
                     prev_variance, history, converged, result, first>>

localVars == <<objective_targets, current_allocations, prev_variance,
               history, converged>>

scenarioVars == <<risk_high, risk_low, workers, serialized>>

protocolVars == <<surplus_pools, negotiation_results, sessions, reply>>

ledgerVars == <<entries, agent_balances, funds, returned>>

forecastingVars == <<causal_rules, rule_updates, rule_call>>

\* What the negotiation engine and the surplus engine never touch.
platformVars == <<recalibration, risk_high, risk_low, surplus_pools,
                  negotiation_results, sessions, reply, vector, entries,
                  agent_balances, funds, returned, workers, serialized,
                  causal_rules, rule_updates, rule_call>>

vars == <<synergy_multiplier, dependency_risk_factor, pattern_modifiers,
          projections, surplus_pool, max_iterations, equilibrium_tolerance,
          fairness_weight, pc, pool, claims, objective_targets,
          current_allocations, prev_variance, history, converged, result, first,
          recalibration, risk_high, risk_low, surplus_pools, negotiation_results,
          sessions, reply, vector, entries, agent_balances, funds, returned,
          workers, serialized, causal_rules, rule_updates, rule_call>>

None == [none |-> TRUE]

(***************************************************************************)
(* Pure parts of negotiate_splits.                                         *)
(***************************************************************************)

\* _calculate_variance(values)
\* sum((x - mean) ** 2 for x in values) / len(values)
VarianceAround(values, mean) ==
    FDiv(FSum([i \in 1..Len(values) |-> Square(FSub(values[i], mean))]),
         Fx(Len(values)))

CalculateVariance(values) ==
    IF values = <<>> THEN Zero
    ELSE VarianceAround(values, FDiv(FSum(values), Fx(Len(values))))

\* A variant in which a key that occurs twice keeps its first value.
DictOfFirst(keys, vals) ==
    [a \in {keys[i] : i \in 1..Len(keys)} |->
        vals[CHOOSE i \in 1..Len(keys) :
                /\ keys[i] = a
                /\ \A j \in 1..(i - 1) : keys[j] # a]]

\* A dict built from a list of keys and a list of values by a comprehension:
\* a key that occurs twice keeps the value of its last occurrence.
DictOf(keys, vals) ==
    [a \in {keys[i] : i \in 1..Len(keys)} |->
        vals[CHOOSE i \in 1..Len(keys) :
                /\ keys[i] = a
                /\ \A j \in (i + 1)..Len(keys) : keys[j] # a]]

EmptyDict == [a \in {} |-> Zero]

AgentIds(cs) == [i \in 1..Len(cs) |-> cs[i].agent_id]

\* total_surplus / num_agents
EqualSplit(total_surplus, num_agents) == FDiv(total_surplus, Fx(num_agents))

\* 1. the marginal contribution targets
MarginalImpacts(cs) == [i \in 1..Len(cs) |-> cs[i].marginal_impact_estimate]

\* A variant whose proportional shares are not scaled to total_surplus.
ProportionalUnscaled(total_surplus, values, sum_values) ==
    IF FIsPos(sum_values)
    THEN [i \in 1..Len(values) |-> FDiv(values[i], sum_values)]
    ELSE [i \in 1..Len(values) |-> EqualSplit(total_surplus, Len(values))]

\* The shares of total_surplus in proportion to values, or equal shares when
\* their sum is not positive.
Proportional(total_surplus, values, sum_values) ==
    IF FIsPos(sum_values)
    THEN [i \in 1..Len(values) |-> FMul(FDiv(values[i], sum_values), total_surplus)]
    ELSE [i \in 1..Len(values) |-> EqualSplit(total_surplus, Len(values))]

\* A variant without the equal-split fallback.
MarginalTargetsZeroFallback(total_surplus, cs) ==
    IF FIsPos(FSum(MarginalImpacts(cs)))
    THEN Proportional(total_surplus, MarginalImpacts(cs), FSum(MarginalImpacts(cs)))
    ELSE [i \in 1..Len(cs) |-> Zero]

MarginalTargets(total_surplus, cs) ==
    Proportional(total_surplus, MarginalImpacts(cs), FSum(MarginalImpacts(cs)))

\* A variant with the two weights exchanged.
ObjectiveOfSwapped(fw, mt, fairness_target) ==
    FAdd(FMul(fw, mt), FMul(FSub(One, fw), fairness_target))

\* 3. the composite objective of one agent
ObjectiveOf(fw, mt, fairness_target) ==
    FAdd(FMul(FSub(One, fw), mt), FMul(fw, fairness_target))

ObjectiveTargets(fw, total_surplus, cs) ==
    LET marginal_targets == MarginalTargets(total_surplus, cs)
        fairness_target  == EqualSplit(total_surplus, Len(cs))
    IN  [i \in 1..Len(cs) |-> ObjectiveOf(fw, marginal_targets[i], fairness_target)]

Epsilon == FxD(0, 0, 0, 1000)        \* 1e-9

BaseVelocity == FxD(0, 2500, 0, 0)   \* 0.25

LeverageFactor == FxD(0, 4000, 0, 0) \* 0.4

MinVelocity == FxD(0, 500, 0, 0)     \* 0.05

MaxVelocity == FxD(0, 6000, 0, 0)    \* 0.6

\* The divisor of the flexibility score.
FlexDivisor(claim) == FAdd(claim.marginal_impact_estimate, Epsilon)

\* A variant that steps three times the distance to the target.
VelocityOvershoot(claim) == FMul(Fx(12), BaseVelocity)

\* A variant without the clamp of line 121.
VelocityUnclamped(claim) ==
    FMul(BaseVelocity,
         FSub(FAdd(One, FMin(One, FDiv(claim.uncertainty_margin, FlexDivisor(claim)))),
              FMul(LeverageFactor, claim.dependency_influence_weight)))

\* The adjustment velocity of one agent (its flexibility divisor is not 0).
Velocity(claim) ==
    LET leverage    == claim.dependency_influence_weight
        flexibility == FMin(One, FDiv(claim.uncertainty_margin, FlexDivisor(claim)))
        velocity    == FMul(BaseVelocity,
                            FSub(FAdd(One, flexibility), FMul(LeverageFactor, leverage)))
    IN  FMax(MinVelocity, FMin(MaxVelocity, velocity))

\* The update step of every agent.
NewAllocations(cs, targets, current) ==
    [i \in 1..Len(cs) |->
        FAdd(current[i], FMul(Velocity(cs[i]), FSub(targets[i], current[i])))]

\* 5. global normalization
Normalize(total_surplus, new_allocations) ==
    Proportional(total_surplus, new_allocations, FSum(new_allocations))

\* sum(abs(current_allocations[i] - objective_targets[i]))
Deviation(current, targets) ==
    FSum([i \in 1..Len(current) |-> FAbs(FSub(current[i], targets[i]))])

RoundedDict(cs, values) ==
    DictOf(AgentIds(cs), [i \in 1..Len(values) |-> Round4(values[i])])

\* A variant that numbers the rounds from 1.
NegotiationRoundFromOne(iteration, cs, current, deviation, current_variance) ==
    [round_number             |-> iteration + 1,
     allocations              |-> RoundedDict(cs, current),
     deviation_from_objective |-> Round4(deviation),
     allocation_variance      |-> Round4(current_variance)]

NegotiationRound(iteration, cs, current, deviation, current_variance) ==
    [round_number             |-> iteration,
     allocations              |-> RoundedDict(cs, current),
     deviation_from_objective |-> Round4(deviation),
     allocation_variance      |-> Round4(current_variance)]

\* 6. the convergence check
\* A variant that tests the first round as well.
ConvergenceCheckAtOnce(iteration, tol, current_variance, prev, deviation) ==
    \/ FLt(FAbs(FSub(current_variance, prev)), tol)
    \/ FLt(deviation, tol)

ConvergenceCheck(iteration, tol, current_variance, prev, deviation) ==
    /\ iteration > 0
    /\ \/ FLt(FAbs(FSub(current_variance, prev)), tol)
       \/ FLt(deviation, tol)

\* A variant that lets a pool with total_surplus = 0 through.
DegenerateStrict(p, cs) == cs = <<>> \/ p.total_surplus.neg

\* The guard of the degenerate return.
Degenerate(p, cs) == cs = <<>> \/ ~FIsPos(p.total_surplus)

DegenerateResult(p) ==
    [cluster_id            |-> p.cluster_id,
     total_surplus         |-> p.total_surplus,
     final_allocations     |-> EmptyDict,
     rounds_to_convergence |-> 0,
     converged             |-> TRUE,
     history               |-> <<>>]

FinalResult(p, cs, current, targets, hist, conv) ==
    [cluster_id            |-> p.cluster_id,
     total_surplus         |-> p.total_surplus,
     final_allocations     |-> RoundedDict(cs, current),
     rounds_to_convergence |-> Len(hist),
     converged             |-> conv,
     final_deviation       |-> Round4(Deviation(current, targets)),
     history               |-> hist,
     objective_targets     |-> RoundedDict(cs, targets)]

(***************************************************************************)
(* Inputs: the engines that are constructed and the arguments of the       *)
(* calls.                                                                  *)
(***************************************************************************)
Engine(mi, tol, fw) ==
    [max_iterations |-> mi, equilibrium_tolerance |-> tol, fairness_weight |-> fw]

Tol6 == FxD(0, 0, 100, 0)   \* 1e-6

Tol7 == FxD(0, 0, 10, 0)    \* 1e-7

DefaultMaxIterations == 50

DefaultFairness == FxD(0, 3000, 0, 0)   \* 0.3

\* The iteration limit of the tests and of the stress test.
TestMaxIterations == 100

Engines ==
    { Engine(DefaultMaxIterations, Tol6, DefaultFairness),
      Engine(TestMaxIterations, Tol7, DefaultFairness),
      Engine(TestMaxIterations, Tol7, FxD(0, 9000, 0, 0)),
      Engine(DefaultMaxIterations, Tol6, One),
      Engine(DefaultMaxIterations, Tol6, Zero),
      Engine(0, Tol6, DefaultFairness) }

Claim(id, m, u, w, tasks) ==
    [agent_id                    |-> id,
     cluster_id                  |-> "c1",
     marginal_impact_estimate    |-> m,
     uncertainty_margin          |-> u,
     dependency_influence_weight |-> w,
     task_ids                    |-> tasks]

Pool(total) == [cluster_id |-> "c1", total_surplus |-> total]

\* The number of agents of the crowded session.
Crowd == 25

\* tests/test_negotiation.py, test_balanced_negotiation
BalancedClaims ==
    << Claim("agent-A", Fx(800), Fx(200), FxD(0, 1000, 0, 0), <<"t1">>),
       Claim("agent-B", Fx(200), Fx(10), FxD(0, 9000, 0, 0), <<"t2">>) >>

\* tests/test_negotiation.py, test_high_fairness_constraint
HighFairnessClaims ==
    << Claim("A", Fx(90), Fx(5), FxD(0, 5000, 0, 0), <<"t1">>),
       Claim("B", Fx(10), Fx(5), FxD(0, 5000, 0, 0), <<"t2">>) >>

\* stress_test_negotiation.py: a normal agent and a bad-faith agent that
\* touched no task, is certain of its claim and has full leverage
BadFaithClaims ==
    << Claim("normal_agent_0", Fx(200), Fx(40), FxD(0, 3000, 0, 0), <<"task_0", "task_1">>),
       Claim("bad_faith_agent_0", Fx(800), Zero, One, <<>>) >>

\* a marginal estimate of -1e-9
CancellingClaims ==
    << Claim("A", FNeg(Epsilon), Fx(1), Zero, <<"t1">>),
       Claim("B", Fx(5), Fx(1), Zero, <<"t2">>) >>

\* no measurable marginal contribution
ZeroClaims ==
    << Claim("A", Zero, Zero, Zero, <<"t1">>),
       Claim("B", Zero, Fx(5), One, <<"t2">>) >>

\* a negative estimate that drives the sum of the new allocations below 0
NegativeClaims ==
    << Claim("A", FNeg(Fx(50)), Zero, Zero, <<"t1">>),
       Claim("B", Fx(51), Zero, One, <<"t2">>) >>

\* two claims of one agent
DuplicateClaims ==
    << Claim("A", Fx(90), Fx(5), Zero, <<"t1">>),
       Claim("A", Fx(10), Fx(5), Zero, <<"t2">>) >>

\* four agents of unequal speed: the variance of their allocations rises and
\* then falls again, and the leverage of B puts the turn between two rounds
StallingClaims ==
    << Claim("A", Fx(100), Fx(1000), Zero, <<"t1">>),
       Claim("B", Fx(10), Fx(1000), FxD(0, 2389, 5064, 3527), <<"t2">>),
       Claim("C", Fx(1000), Fx(1000), Zero, <<"t3">>),
       Claim("D", Fx(500), Fx(5), One, <<"t4">>) >>

\* velocities at both ends of the clamp: a leverage of 3 gives
\* 0.25 * (1 + 0.0556 - 1.2) < 0.05, a leverage of -2 gives 0.25 * 2.8 > 0.6
ClampedClaims ==
    << Claim("A", Fx(90), Fx(5), Fx(3), <<"t1">>),
       Claim("B", Fx(10), Fx(50), FNeg(Fx(2)), <<"t2">>),
       Claim("C", Fx(50), Fx(5), FxD(0, 5000, 0, 0), <<"t3">>) >>

SingleClaim == << Claim("A", Fx(5), Fx(1), Zero, <<"t1">>) >>

\* many agents with equal claims
CrowdClaims == [i \in 1..Crowd |-> Claim(ToString(i), One, Zero, Zero, <<"t">>)]

ClaimLists ==
    { <<>>, BalancedClaims, HighFairnessClaims, BadFaithClaims, CancellingClaims,
      ZeroClaims, NegativeClaims, DuplicateClaims, StallingClaims, SingleClaim,
      CrowdClaims, ClampedClaims }

Pools == { Pool(Zero), Pool(FNeg(Fx(5))), Pool(Fx(1000)), Pool(FxD(25, 12, 0, 0)) }

(***************************************************************************)
(* The surplus engine, after section 4.1 of the specification (its source  *)
(* file, src/engine/surplus.py, is not in the repository).                 *)
(***************************************************************************)
EmptyMetadata == [k \in {} |-> ""]

Projection(task, mean, category, magnitude, deps, metadata) ==
    [task_id           |-> task,
     distribution_mean |-> mean,
     target_vector     |-> [category            |-> category,
                            magnitude           |-> magnitude,
                            causal_dependencies |-> deps],
     metadata          |-> metadata]

TaskIds(ps) == [i \in 1..Len(ps) |-> ps[i].task_id]

Dependencies(ps, i) == ps[i].target_vector.causal_dependencies

\* Every entry of every causal_dependencies list: projection i, position k.
DependencyEntries(ps) ==
    UNION {{<<i, k>> : k \in 1..Len(Dependencies(ps, i))} : i \in 1..Len(ps)}

\* A variant that knows only the tasks before the one that depends.
IsInternalSeen(ps, e) ==
    \E j \in 1..(e[1] - 1) : ps[j].task_id = Dependencies(ps, e[1])[e[2]]

IsInternal(ps, e) ==
    \E j \in 1..Len(ps) : ps[j].task_id = Dependencies(ps, e[1])[e[2]]

InternalDependencies(ps) ==
    Cardinality({e \in DependencyEntries(ps) : IsInternal(ps, e)})

ExternalDependencies(ps) ==
    Cardinality({e \in DependencyEntries(ps) : ~IsInternal(ps, e)})

BaseSurplus(ps) == FSum([i \in 1..Len(ps) |-> ps[i].distribution_mean])

Density(ps) ==
    IF Len(ps) * (Len(ps) - 1) = 0 THEN Zero
    ELSE FDiv(Fx(InternalDependencies(ps)), Fx(Len(ps) * (Len(ps) - 1)))

\* A variant that relates the internal dependencies to the ordered pairs.
InterdependencePerPair(ps) == Density(ps)

Interdependence(ps) == FDiv(Fx(InternalDependencies(ps)), Fx(Len(ps)))

\* The agent_role tags, a projection without one having the default role.
Roles(ps) ==
    {IF "agent_role" \in DOMAIN ps[i].metadata THEN ps[i].metadata.agent_role
     ELSE "default" : i \in 1..Len(ps)}

Diversity(ps) == FMax(Zero, FMin(One, FDiv(Fx(Cardinality(Roles(ps))), Fx(Len(ps)))))

DiversityExponent == FxD(0, 4000, 0, 0)

InterdependenceExponent == FxD(1, 2000, 0, 0)

\* The graph metrics of a cluster.
GraphMetrics(ps) ==
    [internal_dependencies |-> InternalDependencies(ps),
     external_dependencies |-> ExternalDependencies(ps),
     diversity             |-> Diversity(ps),
     density               |-> Density(ps),
     interdependence       |-> Interdependence(ps)]

\* A variant whose exponential boost leaves the density out.
SynergyBonusUndamped(m, multiplier) ==
    FMul(FMul(FPow(m.diversity, DiversityExponent),
              FAdd(One, FPow(m.interdependence, InterdependenceExponent))),
         FExp(FMul(multiplier, Fx(4))))

SynergyBonus(m, multiplier) ==
    FMul(FMul(FPow(m.diversity, DiversityExponent),
              FAdd(One, FPow(m.interdependence, InterdependenceExponent))),
         FExp(FMul(FMul(m.density, multiplier), Fx(4))))

\* A variant that grows with the risk factor.
RiskDiscountInverted(m, risk_factor) ==
    FAdd(One, FMul(Fx(m.external_dependencies), risk_factor))

RiskDiscount(m, risk_factor) ==
    FDiv(One, FAdd(One, FMul(Fx(m.external_dependencies), risk_factor)))

TotalSurplus(base_surplus, synergy_bonus, risk_discount) ==
    FMul(FMul(base_surplus, synergy_bonus), risk_discount)

\* aggregated_vectors[category] += target_vector.magnitude
AggregatedVectors(ps) ==
    [c \in {ps[i].target_vector.category : i \in 1..Len(ps)} |->
        FSum([i \in 1..Len(ps) |->
                 IF ps[i].target_vector.category = c
                 THEN ps[i].target_vector.magnitude ELSE Zero])]

\* The structural signature of a cluster: its rounded density and diversity.
PatternKey(m) == <<Round4(m.density), Round4(m.diversity)>>

PoolMetadata(m, risk_discount) ==
    [internal_dependencies |-> m.internal_dependencies,
     external_dependencies |-> m.external_dependencies,
     risk_discount         |-> risk_discount,
     synergy_metrics       |-> [diversity       |-> Round4(m.diversity),
                                density         |-> Round4(m.density),
                                interdependence |-> Round4(m.interdependence)],
     pattern_key           |-> PatternKey(m)]

\* The zero-valued pool of an empty cluster.
EmptyPool(cluster_id) ==
    [cluster_id         |-> cluster_id,
     total_surplus      |-> Zero,
     aggregated_vectors |-> [c \in {} |-> Zero],
     task_ids           |-> <<>>,
     metadata           |-> EmptyMetadata]

\* The pool of a cluster with the metrics m and the risk discount given.
DiscountedPool(cluster_id, ps, m, multiplier, risk_discount) ==
    [cluster_id         |-> cluster_id,
     total_surplus      |-> TotalSurplus(BaseSurplus(ps), SynergyBonus(m, multiplier),
                                         risk_discount),
     aggregated_vectors |-> AggregatedVectors(ps),
     task_ids           |-> TaskIds(ps),
     metadata           |-> PoolMetadata(m, risk_discount)]

MeasuredPool(cluster_id, ps, m, multiplier, risk_factor) ==
    DiscountedPool(cluster_id, ps, m, multiplier, RiskDiscount(m, risk_factor))

\* The pool of a cluster of at least one task.
ClusterPool(cluster_id, ps, multiplier, risk_factor) ==
    MeasuredPool(cluster_id, ps, GraphMetrics(ps), multiplier, risk_factor)

\* The outcome of a division by zero.
ZeroDivisionError == [raised |-> "ZeroDivisionError"]

\* A variant without the branch for the empty cluster: the interdependence
\* of no tasks divides by zero.
SurplusPoolUnguarded(cluster_id, ps, multiplier, risk_factor) ==
    IF ps = <<>> THEN ZeroDivisionError
    ELSE ClusterPool(cluster_id, ps, multiplier, risk_factor)

\* calculate_cluster_surplus(cluster_id, projections)
SurplusPoolOf(cluster_id, ps, multiplier, risk_factor) ==
    IF ps = <<>> THEN EmptyPool(cluster_id)
    ELSE ClusterPool(cluster_id, ps, multiplier, risk_factor)

\* The floor of synergy_multiplier.
MultiplierFloor == FxD(0, 100, 0, 0)

\* The clusters computed and the steps of the recalibration.
SingleTask ==
    << Projection("t1", Fx(100), "TECHNICAL", Fx(10), <<>>, EmptyMetadata) >>

\* tests/test_surplus.py, test_synergy_and_risk
ThreeTasks ==
    << Projection("t1", Fx(100), "TECHNICAL", Fx(10), <<>>,
                  [agent_role |-> "researcher"]),
       Projection("t2", Fx(50), "EFFICIENCY", Fx(5), <<"t1">>,
                  [agent_role |-> "coder"]),
       Projection("t3", Fx(200), "REVENUE", Fx(20), <<"ext-001">>,
                  [agent_role |-> "analyst"]) >>

\* a cycle of dependencies, and two tasks in one category
CyclicTasks ==
    << Projection("A", Fx(10), "TECHNICAL", Fx(1), <<"B">>, EmptyMetadata),
       Projection("B", Fx(20), "TECHNICAL", Fx(2), <<"C">>, EmptyMetadata),
       Projection("C", Fx(30), "REVENUE", Fx(3), <<"A">>, EmptyMetadata) >>

ProjectionLists == { <<>>, SingleTask, ThreeTasks, CyclicTasks }

Step == FxD(0, 1000, 0, 0)

ParameterDeltas == { Zero, Step, FNeg(Step) }

\* The largest synergy_multiplier and dependency_risk_factor explored.
MultiplierCap == FxD(0, 2000, 0, 0)

RiskCap == FxD(0, 2000, 0, 0)

\* The number of patterns the table may hold, and the largest modifier.
MaxPatterns == 1

ModifierCap == Step

PatternKeys ==
    { PatternKey(GraphMetrics(ThreeTasks)), PatternKey(GraphMetrics(CyclicTasks)) }

(***************************************************************************)
(* negotiate_splits as a state machine: the call up to the loop, then one  *)
(* step per iteration of the bargaining loop; the return statement is part *)
(* of the step that leaves the loop.                                       *)
(***************************************************************************)
InitOf(engines) ==
    /\ \E e \in engines :
          /\ max_iterations = e.max_iterations
          /\ equilibrium_tolerance = e.equilibrium_tolerance
          /\ fairness_weight = e.fairness_weight
    /\ pc = "idle"
    /\ pool = None
    /\ claims = <<>>
    /\ objective_targets = None
    /\ current_allocations = None
    /\ prev_variance = None
    /\ history = None
    /\ converged = None
    /\ result = None
    /\ first = None

\* The surplus engine of the tests, before any computation.
SurplusConstructed ==
    /\ synergy_multiplier = FxD(0, 2000, 0, 0)
    /\ dependency_risk_factor = FxD(0, 1000, 0, 0)
    /\ pattern_modifiers = [k \in {} |-> Zero]
    /\ projections = <<>>
    /\ surplus_pool = None

\* forecasting.py:17-34: the transitions of a new ForecastingLayer, for each
\* source category the list of (target category, probability, multiplier).
ConstructedRules ==
    [TECHNICAL  |-> << <<"EFFICIENCY", FxD(0, 8000, 0, 0), FxD(1, 2000, 0, 0)>>,
                       <<"ECOSYSTEM", FxD(0, 3000, 0, 0), FxD(0, 5000, 0, 0)>> >>,
     EFFICIENCY |-> << <<"REVENUE", FxD(0, 6000, 0, 0), FxD(1, 5000, 0, 0)>>,
                       <<"SOCIAL", FxD(0, 2000, 0, 0), FxD(0, 4000, 0, 0)>> >>,
     RESEARCH   |-> << <<"TECHNICAL", FxD(0, 7000, 0, 0), Fx(2)>>,
                       <<"ECOSYSTEM", FxD(0, 5000, 0, 0), FxD(1, 1000, 0, 0)>> >>,
     ECOSYSTEM  |-> << <<"REVENUE", FxD(0, 4000, 0, 0), FxD(0, 8000, 0, 0)>>,
                       <<"SOCIAL", FxD(0, 5000, 0, 0), FxD(1, 2000, 0, 0)>> >>]

\* Nothing recalibrated, computed, negotiated, constructed or recorded yet.
PlatformConstructed ==
    /\ recalibration = None
    /\ risk_high = None
    /\ risk_low = None
    /\ surplus_pools = [c \in {} |-> None]
    /\ negotiation_results = [c \in {} |-> None]
    /\ sessions = [c \in {} |-> 0]
    /\ reply = None
    /\ vector = None
    /\ entries = <<>>
    /\ agent_balances = [a \in {} |-> None]
    /\ funds = [f \in {} |-> None]
    /\ returned = None
    /\ workers = None
    /\ serialized = None
    /\ causal_rules = ConstructedRules
    /\ rule_updates = 0
    /\ rule_call = None

Init == InitOf(Engines) /\ SurplusConstructed /\ PlatformConstructed

\* The locals of a call are gone when it ends.
DiscardLocals ==
    /\ objective_targets' = None
    /\ current_allocations' = None
    /\ prev_variance' = None
    /\ history' = None
    /\ converged' = None

\* A variant that starts from the final allocations of the previous session
\* when that one had as many agents.
InitialAllocationsWarm(total_surplus, num_agents) ==
    IF "final_deviation" \in DOMAIN result /\ Len(claims) = num_agents
    THEN [i \in 1..num_agents |-> result.final_allocations[claims[i].agent_id]]
    ELSE [i \in 1..num_agents |-> EqualSplit(total_surplus, num_agents)]

\* Initial state: a neutral uniform distribution.
InitialAllocations(total_surplus, num_agents) ==
    [i \in 1..num_agents |-> EqualSplit(total_surplus, num_agents)]

\* Lines 67-97 of negotiate_splits: the locals before the loop.
Setup(p, cs) ==
    LET current == InitialAllocations(p.total_surplus, Len(cs))
    IN  [objective_targets   |-> ObjectiveTargets(fairness_weight, p.total_surplus, cs),
         current_allocations |-> current,
         prev_variance       |-> CalculateVariance(current)]

\* negotiate_splits(pool, claims), up to the bargaining loop
Call(p, cs) ==
    /\ pc \in {"idle", "returned", "raised"}
    /\ pool' = p
    /\ claims' = cs
    /\ UNCHANGED <<engineVars, surplusVars, platformVars>>
    /\ first' = IF first # None /\ (p # first.pool \/ cs # first.claims)
                THEN [first EXCEPT !.interleaved = TRUE]
                ELSE first
    /\ IF Degenerate(p, cs)
       THEN /\ result' = DegenerateResult(p)
            /\ pc' = "returned"
            /\ DiscardLocals
       ELSE \E s \in {Setup(p, cs)} :
                IF max_iterations <= 0
                THEN /\ result' = FinalResult(p, cs, s.current_allocations,
                                              s.objective_targets, <<>>, FALSE)
                     /\ pc' = "returned"
                     /\ DiscardLocals
                ELSE /\ objective_targets' = s.objective_targets
                     /\ current_allocations' = s.current_allocations
                     /\ history' = <<>>
                     /\ prev_variance' = s.prev_variance
                     /\ converged' = FALSE
                     /\ result' = None
                     /\ pc' = "loop"

\* A variant that allows one iteration more.
LoopEndsLate(iteration, conv) == conv \/ iteration >= max_iterations

\* Whether the loop ends after the iteration that has just been recorded.
LoopEnds(iteration, conv) == conv \/ iteration + 1 >= max_iterations

\* Lines 136-151: the record of the round and the convergence check, for the
\* allocations next of this iteration and their metrics.
Checked(iteration, cs, prev, next, current_variance, deviation) ==
    [current_allocations |-> next,
     round               |-> NegotiationRound(iteration, cs, next, deviation,
                                              current_variance),
     converged           |-> ConvergenceCheck(iteration, equilibrium_tolerance,
                                              current_variance, prev, deviation),
     prev_variance       |-> IF ConvergenceCheck(iteration, equilibrium_tolerance,
                                                 current_variance, prev, deviation)
                             THEN prev ELSE current_variance]

Measured(iteration, cs, targets, prev, next) ==
    Checked(iteration, cs, prev, next, CalculateVariance(next),
            Deviation(next, targets))

\* Lines 101-151: the body of the loop, from the locals before it to the
\* locals after it.
Iteration(iteration, p, cs, targets, current, prev) ==
    Measured(iteration, cs, targets, prev,
             Normalize(p.total_surplus, NewAllocations(cs, targets, current)))

\* One iteration of the bargaining loop
Round ==
    /\ pc = "loop"
    /\ UNCHANGED <<engineVars, callVars, first, surplusVars, platformVars>>
    /\ IF \E i \in 1..Len(claims) : FlexDivisor(claims[i]) = Zero
       THEN \* ZeroDivisionError leaves the call
            /\ pc' = "raised"
            /\ result' = None
            /\ DiscardLocals
       ELSE \E it \in {Iteration(Len(history), pool, claims, objective_targets,
                                 current_allocations, prev_variance)} :
            \E hist \in {Append(history, it.round)} :
                IF LoopEnds(Len(history), it.converged)
                THEN /\ result' = FinalResult(pool, claims, it.current_allocations,
                                              objective_targets, hist, it.converged)
                     /\ pc' = "returned"
                     /\ DiscardLocals
                ELSE /\ current_allocations' = it.current_allocations
                     /\ history' = hist
                     /\ converged' = it.converged
                     /\ prev_variance' = it.prev_variance
                     /\ UNCHANGED objective_targets
                     /\ result' = None
                     /\ pc' = "loop"

Next ==
    \/ \E p \in Pools, cs \in ClaimLists : Call(p, cs)
    \/ Round

Spec == Init /\ [][Next]_vars

(***************************************************************************)
(* Repeated sessions on one engine: the first session that returns is      *)
(* remembered with its arguments, to compare later sessions with it.       *)
(***************************************************************************)
ReplayEngines ==
    { Engine(DefaultMaxIterations, Tol6, DefaultFairness),
      Engine(DefaultMaxIterations, Tol6, One) }

ReplayClaimLists == { <<>>, HighFairnessClaims, DuplicateClaims, SingleClaim }

ReplayPools == { Pool(Zero), Pool(Fx(1000)), Pool(FxD(25, 12, 0, 0)) }

ReplayInit == InitOf(ReplayEngines) /\ SurplusConstructed /\ PlatformConstructed

Remember ==
    /\ pc = "returned"
    /\ first = None
    /\ first' = [pool |-> pool, claims |-> claims, result |-> result,
                 interleaved |-> FALSE]
    /\ UNCHANGED <<engineVars, callVars, localVars, pc, result, surplusVars,
                   platformVars>>

ReplayNext ==
    \/ \E p \in ReplayPools, cs \in ReplayClaimLists : Call(p, cs)
    \/ Round
    \/ Remember

ReplaySpec == ReplayInit /\ [][ReplayNext]_vars

(***************************************************************************)
(* The surplus engine as a state machine: computations of cluster pools    *)
(* and the updates of the recalibration, on an idle negotiation engine.    *)
(***************************************************************************)
SurplusInit ==
    /\ InitOf({Engine(DefaultMaxIterations, Tol6, DefaultFairness)})
    /\ SurplusConstructed
    /\ PlatformConstructed

CalculateClusterSurplus(cluster_id, ps) ==
    /\ projections' = ps
    /\ surplus_pool' = SurplusPoolOf(cluster_id, ps, synergy_multiplier,
                                     dependency_risk_factor)
    /\ UNCHANGED <<synergy_multiplier, dependency_risk_factor, pattern_modifiers,
                   negotiationVars, platformVars>>

\* A variant without a floor.
Unfloored(x) == x

\* The floors of the two scalars.
FlooredMultiplier(x) == FMax(MultiplierFloor, x)

FlooredRisk(x) == FMax(Zero, x)

\* The effect of update_synergy_parameters on the engine.
SynergyParametersUpdated(synergy_multiplier_delta, dependency_risk_delta) ==
    /\ synergy_multiplier' =
           FlooredMultiplier(FAdd(synergy_multiplier, synergy_multiplier_delta))
    /\ dependency_risk_factor' =
           FlooredRisk(FAdd(dependency_risk_factor, dependency_risk_delta))

\* update_synergy_parameters(synergy_multiplier_delta, dependency_risk_delta)
UpdateSynergyParameters(synergy_multiplier_delta, dependency_risk_delta) ==
    /\ FLe(FAdd(synergy_multiplier, synergy_multiplier_delta), MultiplierCap)
    /\ FLe(FAdd(dependency_risk_factor, dependency_risk_delta), RiskCap)
    /\ SynergyParametersUpdated(synergy_multiplier_delta, dependency_risk_delta)
    /\ UNCHANGED <<pattern_modifiers, projections, surplus_pool, negotiationVars,
                   platformVars>>

\* The modifier of a pattern, a pattern not in the table having none yet.
ModifierOf(pattern_key) ==
    IF pattern_key \in DOMAIN pattern_modifiers THEN pattern_modifiers[pattern_key]
    ELSE Zero

\* The effect of update_pattern_modifier on the engine.
PatternModifierUpdated(pattern_key, delta) ==
    pattern_modifiers' =
        [k \in DOMAIN pattern_modifiers \cup {pattern_key} |->
            IF k = pattern_key THEN FAdd(ModifierOf(pattern_key), delta)
            ELSE pattern_modifiers[k]]

\* update_pattern_modifier(pattern_key, delta)
UpdatePatternModifier(pattern_key, delta) ==
    /\ Cardinality(DOMAIN pattern_modifiers \cup {pattern_key}) <= MaxPatterns
    /\ FLe(FAbs(FAdd(ModifierOf(pattern_key), delta)), ModifierCap)
    /\ PatternModifierUpdated(pattern_key, delta)
    /\ UNCHANGED <<synergy_multiplier, dependency_risk_factor, projections,
                   surplus_pool, negotiationVars, platformVars>>

SurplusNext ==
    \/ \E ps \in ProjectionLists : CalculateClusterSurplus("cluster", ps)
    \/ \E md, rd \in ParameterDeltas : UpdateSynergyParameters(md, rd)
    \/ \E k \in PatternKeys, delta \in ParameterDeltas : UpdatePatternModifier(k, delta)

SurplusSpec == SurplusInit /\ [][SurplusNext]_vars

(***************************************************************************)
(* recalibrate_synergy_model: three separate calls into the surplus        *)
(* engine, with whatever else runs on the engine between them.             *)
(***************************************************************************)

LearningRate == FxD(0, 500, 0, 0)

\* Pools handed to the recalibration, with the outcome realized for each.
RecalibratedPool(cluster_id, total_surplus, ci_low, ci_high, metadata) ==
    [cluster_id          |-> cluster_id,
     total_surplus       |-> total_surplus,
     confidence_interval |-> <<ci_low, ci_high>>,
     aggregated_vectors  |-> [c \in {} |-> Zero],
     task_ids            |-> <<"task_1">>,
     metadata            |-> metadata]

\* tests/test_recalibration.py: no metadata at all
TestPool == RecalibratedPool("cluster_1", Fx(100), Fx(90), Fx(110), EmptyMetadata)

ExternalPool ==
    RecalibratedPool("cluster_2", Fx(100), Fx(90), Fx(110),
                     [internal_dependencies |-> 1,
                      external_dependencies |-> 1,
                      pattern_key |-> PatternKey(GraphMetrics(ThreeTasks))])

WidePool ==
    RecalibratedPool("cluster_3", Fx(10), Zero, Fx(250),
                     [internal_dependencies |-> 0, external_dependencies |-> 1])

ZeroPool == RecalibratedPool("cluster_4", Zero, Zero, Zero, EmptyMetadata)

\* A cluster predicted to lose value, and one whose interval, taken from the
\* task distributions, lies below the surplus with its synergy bonus.
NegativePool ==
    RecalibratedPool("cluster_5", FNeg(Fx(100)), FNeg(Fx(110)), FNeg(Fx(90)), EmptyMetadata)

ShiftedPool == RecalibratedPool("cluster_6", Fx(100), Fx(50), Fx(60), EmptyMetadata)

Outcome(p, realized_surplus) == [surplus_pool |-> p, realized_surplus |-> realized_surplus]

\* A shortfall and a windfall on a cluster with an external dependency.
ConcurrentOutcomes ==
    { Outcome(ExternalPool, FNeg(Fx(900))), Outcome(WidePool, Fx(210)) }

Outcomes ==
    ConcurrentOutcomes \cup
        { Outcome(TestPool, Fx(900)), Outcome(ExternalPool, Fx(100)),
          Outcome(ZeroPool, Fx(100)) }

\* The outcome of the test and two more above the interval of the pool, two
\* inside it, and one for a pool that predicts nothing.
EvidenceOutcomes ==
    { Outcome(TestPool, Fx(120)), Outcome(NegativePool, FNeg(Fx(50))),
      Outcome(ShiftedPool, Fx(70)), Outcome(ExternalPool, Fx(100)),
      Outcome(WidePool, Fx(210)), Outcome(ZeroPool, Fx(100)) }

\* The largest pattern modifier a recalibration is let to reach.
RecalibratedModifierCap == Fx(2)

DeviationRatio(p, realized_surplus) ==
    FDiv(FSub(realized_surplus, p.total_surplus), p.total_surplus)

SignificantDeviation(p, realized_surplus) ==
    \/ FLt(realized_surplus, p.confidence_interval[1])
    \/ FLt(p.confidence_interval[2], realized_surplus)

\* synergy_delta * 0.5, the delta passed for synergy_multiplier
SynergyDelta(deviation_ratio) ==
    FMul(FMul(FMul(deviation_ratio, LearningRate), Half), Half)

PatternDelta(deviation_ratio) == FMul(FMul(deviation_ratio, LearningRate), Two)

\* surplus_pool.metadata.get("external_dependencies", 0)
ExternalDependenciesOf(p) ==
    IF "external_dependencies" \in DOMAIN p.metadata
    THEN p.metadata.external_dependencies ELSE 0

HasPatternKey(p) == "pattern_key" \in DOMAIN p.metadata

\* The risk delta passed, None when neither branch is taken.
RiskDelta(p, realized_surplus, deviation_ratio) ==
    IF ExternalDependenciesOf(p) > 0 /\ FLt(realized_surplus, p.total_surplus)
    THEN FMul(FMul(FAbs(deviation_ratio), LearningRate), FxD(0, 2000, 0, 0))
    ELSE IF ExternalDependenciesOf(p) > 0 /\ FLt(p.total_surplus, realized_surplus)
    THEN FMul(FMul(FMul(FNeg(One), FAbs(deviation_ratio)), LearningRate),
              FxD(0, 1000, 0, 0))
    ELSE None

\* The dict d with d[k] = v.
With(d, k, v) == [x \in DOMAIN d \cup {k} |-> IF x = k THEN v ELSE d[x]]

NoUpdates == [k \in {} |-> Zero]

\* The parameters of the surplus engine, as one generation.
Parameters == <<synergy_multiplier, dependency_risk_factor, pattern_modifiers>>

\* The parameters g after all the updates of one recalibration.
Recalibrated(g, p, realized_surplus, deviation_ratio, risk_delta) ==
    << IF SignificantDeviation(p, realized_surplus)
       THEN FlooredMultiplier(FAdd(g[1], SynergyDelta(deviation_ratio)))
       ELSE g[1],
       IF risk_delta = None THEN g[2] ELSE FlooredRisk(FAdd(g[2], risk_delta)),
       IF SignificantDeviation(p, realized_surplus) /\ HasPatternKey(p)
       THEN [k \in DOMAIN g[3] \cup {p.metadata.pattern_key} |->
                IF k = p.metadata.pattern_key
                THEN FAdd(IF k \in DOMAIN g[3] THEN g[3][k] ELSE Zero,
                          PatternDelta(deviation_ratio))
                ELSE g[3][k]]
       ELSE g[3] >>

\* The recalibrations explored stay within the caps.
Explored(g) ==
    /\ FLe(g[1], MultiplierCap)
    /\ FLe(g[2], RiskCap)
    /\ \A k \in DOMAIN g[3] : FLe(FAbs(g[3][k]), RecalibratedModifierCap)

Recalibrating == recalibration # None /\ recalibration.pc # "returned"

\* The locals of a recalibration between two of its calls.
Suspended(at, p, realized_surplus, deviation_ratio, updates, before) ==
    [pc               |-> at,
     surplus_pool     |-> p,
     realized_surplus |-> realized_surplus,
     deviation_ratio  |-> deviation_ratio,
     updates          |-> updates,
     before           |-> before]

Returned(updates) == [pc |-> "returned", updates |-> updates]

\* Lines 59-92: from the call to the update of synergy_multiplier.
Entered(p, realized_surplus, deviation_ratio) ==
    /\ Explored(Recalibrated(Parameters, p, realized_surplus, deviation_ratio,
                             RiskDelta(p, realized_surplus, deviation_ratio)))
    /\ IF SignificantDeviation(p, realized_surplus)
       THEN /\ SynergyParametersUpdated(SynergyDelta(deviation_ratio), Zero)
            /\ recalibration' =
                  Suspended("pattern", p, realized_surplus, deviation_ratio,
                            With(NoUpdates, "synergy_multiplier_delta",
                                 SynergyDelta(deviation_ratio)),
                            Parameters)
       ELSE /\ UNCHANGED <<synergy_multiplier, dependency_risk_factor>>
            /\ recalibration' =
                  Suspended("risk", p, realized_surplus, deviation_ratio,
                            NoUpdates, Parameters)

\* recalibrate_synergy_model(surplus_pool, realized_surplus)
RecalibrateSynergyModel(p, realized_surplus) ==
    /\ ~Recalibrating
    /\ IF p.total_surplus = Zero
       THEN /\ recalibration' = Returned(NoUpdates)
            /\ UNCHANGED <<synergy_multiplier, dependency_risk_factor>>
       ELSE Entered(p, realized_surplus, DeviationRatio(p, realized_surplus))
    /\ UNCHANGED <<pattern_modifiers, projections, surplus_pool, negotiationVars,
                   scenarioVars, protocolVars, vector, forecastingVars, ledgerVars>>

\* Lines 95-102: the modifier of the pool's structural pattern.
RecalibratePattern ==
    /\ Recalibrating
    /\ recalibration.pc = "pattern"
    /\ IF HasPatternKey(recalibration.surplus_pool)
       THEN /\ PatternModifierUpdated(recalibration.surplus_pool.metadata.pattern_key,
                                      PatternDelta(recalibration.deviation_ratio))
            /\ recalibration' =
                  [recalibration EXCEPT
                     !.pc = "risk",
                     !.updates =
                        With(With(@, "pattern_modifier_delta",
                                  PatternDelta(recalibration.deviation_ratio)),
                             "pattern_key",
                             recalibration.surplus_pool.metadata.pattern_key)]
       ELSE /\ UNCHANGED pattern_modifiers
            /\ recalibration' = [recalibration EXCEPT !.pc = "risk"]
    /\ UNCHANGED <<synergy_multiplier, dependency_risk_factor, projections,
                   surplus_pool, negotiationVars, scenarioVars, protocolVars,
                   vector, forecastingVars, ledgerVars>>

\* Lines 107-131: the risk factor, and the return.
Leave(risk_delta) ==
    IF risk_delta = None
    THEN /\ UNCHANGED <<synergy_multiplier, dependency_risk_factor>>
         /\ recalibration' = Returned(recalibration.updates)
    ELSE /\ SynergyParametersUpdated(Zero, risk_delta)
         /\ recalibration' =
               Returned(With(recalibration.updates, "risk_factor_delta", risk_delta))

RecalibrateRisk ==
    /\ Recalibrating
    /\ recalibration.pc = "risk"
    /\ Leave(RiskDelta(recalibration.surplus_pool, recalibration.realized_surplus,
                       recalibration.deviation_ratio))
    /\ UNCHANGED <<pattern_modifiers, projections, surplus_pool, negotiationVars,
                   scenarioVars, protocolVars, vector, forecastingVars, ledgerVars>>

\* The recalibration loop on its own, among direct updates of the scalars.
RecalibrationNext ==
    \/ \E o \in Outcomes : RecalibrateSynergyModel(o.surplus_pool, o.realized_surplus)
    \/ RecalibratePattern
    \/ RecalibrateRisk
    \/ \E md, rd \in ParameterDeltas : UpdateSynergyParameters(md, rd)

RecalibrationSpec == SurplusInit /\ [][RecalibrationNext]_vars

\* The recalibration loop alone, one call after the other.
EvidenceNext ==
    \/ \E o \in EvidenceOutcomes :
          RecalibrateSynergyModel(o.surplus_pool, o.realized_surplus)
    \/ RecalibratePattern
    \/ RecalibrateRisk

\* tests/test_recalibration.py: the engine starts at a multiplier of 0.15
EvidenceInit ==
    /\ InitOf({Engine(DefaultMaxIterations, Tol6, DefaultFairness)})
    /\ synergy_multiplier = FxD(0, 1500, 0, 0)
    /\ dependency_risk_factor = FxD(0, 1000, 0, 0)
    /\ pattern_modifiers = [k \in {} |-> Zero]
    /\ projections = <<>>
    /\ surplus_pool = None
    /\ PlatformConstructed

EvidenceSpec == EvidenceInit /\ [][EvidenceNext]_vars

\* The clusters computed while the recalibration runs.
ConcurrentClusters == { ThreeTasks, CyclicTasks }

\* Surplus computations running concurrently with the recalibration.
ConcurrentNext ==
    \/ \E o \in ConcurrentOutcomes :
          RecalibrateSynergyModel(o.surplus_pool, o.realized_surplus)
    \/ RecalibratePattern
    \/ RecalibrateRisk
    \/ \E ps \in ConcurrentClusters : CalculateClusterSurplus("cluster", ps)

ConcurrentSpec == SurplusInit /\ [][ConcurrentNext]_vars

(***************************************************************************)
(* The protocol facade: compute_cooperative_surplus, and the scenario of   *)
(* the graph stress test that computes one cluster at two risk factors.    *)
(***************************************************************************)

\* The dict returned for a pool.
PoolSummary(p) ==
    [cluster_id    |-> p.cluster_id,
     total_surplus |-> p.total_surplus,
     task_ids      |-> p.task_ids,
     metadata      |-> p.metadata]

ErrorReply(message) == [error |-> message]

\* compute_cooperative_surplus(cluster_id, task_ids), the projections of the
\* tasks being ps and the engine holding the risk factor given.
CooperativeSurplusComputed(cluster_id, ps, risk_factor) ==
    IF ps = <<>>
    THEN /\ reply' = ErrorReply("No valid projections found for tasks")
         /\ UNCHANGED <<projections, surplus_pool, surplus_pools, sessions>>
    ELSE /\ projections' = ps
         /\ surplus_pool' = SurplusPoolOf(cluster_id, ps, synergy_multiplier,
                                          risk_factor)
         /\ surplus_pools' = With(surplus_pools, cluster_id, surplus_pool')
         /\ sessions' = With(sessions, cluster_id, 0)
         /\ reply' = PoolSummary(surplus_pool')

\* Two tasks whose adjusted means are 0, one waiting for an outside task.
IdleTasks ==
    << Projection("t1", Zero, "TECHNICAL", Fx(10), <<>>, EmptyMetadata),
       Projection("t2", Zero, "TECHNICAL", Fx(5), <<"t1", "ext-001">>,
                  EmptyMetadata) >>

RiskClusters == { SingleTask, ThreeTasks, IdleTasks }

RiskFactors ==
    { FxD(0, 100, 0, 0), FxD(0, 1000, 0, 0), FxD(0, 2000, 0, 0), FxD(0, 5000, 0, 0),
      One }

RiskMultipliers ==
    { MultiplierFloor, FxD(0, 1000, 0, 0), FxD(0, 1500, 0, 0), FxD(0, 2000, 0, 0) }

RiskInit ==
    /\ InitOf({Engine(DefaultMaxIterations, Tol6, DefaultFairness)})
    /\ synergy_multiplier \in RiskMultipliers
    /\ dependency_risk_factor = FxD(0, 1000, 0, 0)
    /\ pattern_modifiers = [k \in {} |-> Zero]
    /\ projections = <<>>
    /\ surplus_pool = None
    /\ PlatformConstructed

\* surplus_engine.dependency_risk_factor = factor, then
\* risk_high = compute_cooperative_surplus("cluster-high-risk", task_ids)
HighRisk(ps, factor) ==
    /\ risk_high = None
    /\ dependency_risk_factor' = factor
    /\ CooperativeSurplusComputed("cluster-high-risk", ps, factor)
    /\ risk_high' = reply'
    /\ UNCHANGED <<synergy_multiplier, pattern_modifiers, negotiationVars,
                   recalibration, risk_low, negotiation_results, vector, forecastingVars,
                   ledgerVars, workers, serialized>>

\* the same task set at a lower factor
LowRisk(factor) ==
    /\ risk_high # None
    /\ risk_low = None
    /\ FLt(factor, dependency_risk_factor)
    /\ dependency_risk_factor' = factor
    /\ CooperativeSurplusComputed("cluster-low-risk", projections, factor)
    /\ risk_low' = reply'
    /\ UNCHANGED <<synergy_multiplier, pattern_modifiers, negotiationVars,
                   recalibration, risk_high, negotiation_results, vector, forecastingVars,
                   ledgerVars, workers, serialized>>

RiskNext ==
    \/ \E ps \in RiskClusters, factor \in RiskFactors : HighRisk(ps, factor)
    \/ \E factor \in RiskFactors : LowRisk(factor)

RiskSpec == RiskInit /\ [][RiskNext]_vars

(***************************************************************************)
(* compute_cooperative_surplus and run_negotiation on one protocol.        *)
(***************************************************************************)

\* The most sessions followed on one stored pool.
MaxSessions == 2

ClusterIds == { "c1", "c2" }

ProtocolClusters == { <<>>, SingleTask, ThreeTasks }

\* claims_data: none, and one entry as the docstring of run_negotiation
\* describes it.
ClaimsData ==
    { <<>>, << [agent_id |-> "agent-A", marginal_contribution |-> Fx(100)] >> }

\* The outcome of ContributionClaim(...) without its cluster_id argument.
TypeError == [raised |-> "TypeError"]

ComputeCooperativeSurplus(cluster_id, ps) ==
    /\ CooperativeSurplusComputed(cluster_id, ps, dependency_risk_factor)
    /\ UNCHANGED <<synergy_multiplier, dependency_risk_factor, pattern_modifiers,
                   negotiationVars, recalibration, scenarioVars,
                   negotiation_results, vector, forecastingVars, ledgerVars>>

\* Lines 151-154: negotiate_splits on the stored pool with no claims, the
\* result stored and returned.
SessionRun(cluster_id, p) ==
    /\ Degenerate(p, <<>>)
    /\ sessions[cluster_id] < MaxSessions
    /\ pool' = p
    /\ claims' = <<>>
    /\ result' = DegenerateResult(p)
    /\ pc' = "returned"
    /\ DiscardLocals
    /\ negotiation_results' =
          With(negotiation_results, cluster_id, <<DegenerateResult(p), <<>>>>)
    /\ sessions' = With(sessions, cluster_id, sessions[cluster_id] + 1)
    /\ reply' = DegenerateResult(p)
    /\ UNCHANGED <<engineVars, first, surplus_pools>>

\* A variant that stores a result for a cluster whose pool was never
\* computed.
RunNegotiationUnordered(cluster_id, claims_data) ==
    /\ IF cluster_id \notin DOMAIN surplus_pools
       THEN /\ reply' = ErrorReply("Surplus pool not found")
            /\ negotiation_results' =
                  With(negotiation_results, cluster_id, <<DegenerateResult(TestPool), <<>>>>)
            /\ UNCHANGED <<negotiationVars, surplus_pools, sessions>>
       ELSE IF claims_data # <<>>
       THEN /\ reply' = TypeError
            /\ UNCHANGED <<negotiationVars, surplus_pools, negotiation_results,
                           sessions>>
       ELSE SessionRun(cluster_id, surplus_pools[cluster_id])
    /\ UNCHANGED <<surplusVars, recalibration, scenarioVars, vector, forecastingVars, ledgerVars>>

\* run_negotiation(cluster_id, claims_data)
RunNegotiation(cluster_id, claims_data) ==
    /\ IF cluster_id \notin DOMAIN surplus_pools
       THEN /\ reply' = ErrorReply("Surplus pool not found")
            /\ UNCHANGED <<negotiationVars, surplus_pools, negotiation_results,
                           sessions>>
       ELSE IF claims_data # <<>>
       THEN /\ reply' = TypeError
            /\ UNCHANGED <<negotiationVars, surplus_pools, negotiation_results,
                           sessions>>
       ELSE SessionRun(cluster_id, surplus_pools[cluster_id])
    /\ UNCHANGED <<surplusVars, recalibration, scenarioVars, vector, forecastingVars, ledgerVars>>

ProtocolNext ==
    \/ \E c \in ClusterIds, ps \in ProtocolClusters : ComputeCooperativeSurplus(c, ps)
    \/ \E c \in ClusterIds, cd \in ClaimsData : RunNegotiation(c, cd)

ProtocolSpec == SurplusInit /\ [][ProtocolNext]_vars

(***************************************************************************)
(* Floats that are not numbers: nan, inf and -inf, with the comparisons    *)
(* and the arithmetic Python gives them.                                   *)
(***************************************************************************)

NaN == [nan |-> TRUE]

Infinity(neg) == [inf |-> TRUE, neg |-> neg]

IsNaN(x) == "nan" \in DOMAIN x

IsInf(x) == "inf" \in DOMAIN x

IsFinite(x) == "mag" \in DOMAIN x

\* a < b: false whenever one of the two is nan
XLt(a, b) ==
    IF IsNaN(a) \/ IsNaN(b) THEN FALSE
    ELSE IF IsFinite(a) /\ IsFinite(b) THEN FLt(a, b)
    ELSE IF IsInf(a) /\ IsInf(b) THEN a.neg /\ ~b.neg
    ELSE IF IsInf(a) THEN a.neg
    ELSE ~b.neg

\* a == b: nan equals nothing
XEq(a, b) == ~IsNaN(a) /\ ~IsNaN(b) /\ a = b

\* a <= b
XLe(a, b) ==
    IF IsNaN(a) \/ IsNaN(b) THEN FALSE
    ELSE IF IsFinite(a) /\ IsFinite(b) THEN FLe(a, b)
    ELSE a = b \/ XLt(a, b)

XNeg(x) ==
    IF IsFinite(x) THEN FNeg(x)
    ELSE IF IsNaN(x) THEN NaN
    ELSE Infinity(~x.neg)

XAbs(x) ==
    IF IsFinite(x) THEN FAbs(x)
    ELSE IF IsNaN(x) THEN NaN
    ELSE Infinity(FALSE)

XAdd(a, b) ==
    IF IsFinite(a) /\ IsFinite(b) THEN FAdd(a, b)
    ELSE IF IsNaN(a) \/ IsNaN(b) THEN NaN
    ELSE IF IsInf(a) /\ IsInf(b) THEN (IF a.neg = b.neg THEN a ELSE NaN)
    ELSE IF IsInf(a) THEN a
    ELSE b

XMul(a, b) ==
    IF IsFinite(a) /\ IsFinite(b) THEN FMul(a, b)
    ELSE IF IsNaN(a) \/ IsNaN(b) THEN NaN
    ELSE IF a = Zero \/ b = Zero THEN NaN
    ELSE Infinity(a.neg # b.neg)

\* The magnitude m without its digits after the 6th decimal.
MTruncated6(m) ==
    MTrim(<<0, (Limb(m, 2) \div 100) * 100>>
              \o (IF Len(m) <= 2 THEN <<>> ELSE SubSeq(m, 3, Len(m))))

\* Whether the digits of m after the 6th decimal round up (a tie goes to the
\* even neighbour).
MRoundsUp6(m) ==
    \/ (Limb(m, 2) % 100) * Base + Limb(m, 1) > (100 * Base) \div 2
    \/ /\ (Limb(m, 2) % 100) * Base + Limb(m, 1) = (100 * Base) \div 2
       /\ (Limb(m, 2) \div 100) % 2 = 1

\* round(x, 6): half-even on the 6th decimal; nan and inf stay as they are.
Round6(x) ==
    IF ~IsFinite(x) THEN x
    ELSE IF MRoundsUp6(x.mag) THEN Z(x.neg, MAdd(MTruncated6(x.mag), <<0, 100>>))
    ELSE Z(x.neg, MTruncated6(x.mag))

\* round(x, 8)
Round8(x) ==
    IF ~IsFinite(x) THEN x
    ELSE Z(x.neg,
           MShift(MHalfEven(IF Len(x.mag) <= 1 THEN <<>> ELSE SubSeq(x.mag, 2, Len(x.mag)),
                            Limb(x.mag, 1), 0),
                  1))

(***************************************************************************)
(* ImpactVector and the places that construct one from caller data.        *)
(***************************************************************************)

ValueError(message) == [raised |-> "ValueError", message |-> message]

Raised(x) == "raised" \in DOMAIN x

\* ImpactVector(category, magnitude, time_horizon, uncertainty_bounds) with
\* its __post_init__: the vector, or the ValueError raised.
ImpactVector(category, magnitude, time_horizon, uncertainty_bounds) ==
    IF IsNaN(magnitude) \/ IsInf(magnitude) \/ XLe(magnitude, Zero)
    THEN ValueError("Invalid magnitude")
    ELSE IF XLt(time_horizon, Zero)
    THEN ValueError("Negative time horizon")
    ELSE IF \E i \in 1..2 : IsNaN(uncertainty_bounds[i]) \/ IsInf(uncertainty_bounds[i])
    THEN ValueError("Invalid uncertainty bounds")
    ELSE IF XLt(uncertainty_bounds[2], uncertainty_bounds[1])
    THEN ValueError("Uncertainty bounds must be [min, max]")
    ELSE [category           |-> category,
          magnitude          |-> magnitude,
          time_horizon       |-> time_horizon,
          uncertainty_bounds |-> uncertainty_bounds]

\* data.get(key, default)
Get(data, key, default) == IF key \in DOMAIN data THEN data[key] ELSE default

\* technical_mapper(data)
TechnicalMapper(data) ==
    ImpactVector("TECHNICAL",
                 XMul(Get(data, "complexity", One), Get(data, "impact_factor", One)),
                 Get(data, "time_horizon", Fx(30)),
                 <<Half, Two>>)

Magnitudes == { NaN, Infinity(FALSE), Zero, FNeg(One), FxD(2, 5000, 0, 0) }

TimeHorizons == { NaN, Infinity(FALSE), FNeg(One), Zero, Fx(10) }

Bounds == { <<Half, FxD(1, 5000, 0, 0)>>, <<Two, One>>, <<NaN, One>>, <<One, One>> }

EmptyData == [k \in {} |-> Zero]

\* metrics of submitted technical tasks
TechnicalData ==
    { EmptyData, [complexity |-> FxD(1, 5000, 0, 0), impact_factor |-> Two] }
        \cup { [complexity |-> m, time_horizon |-> t] :
                  m \in Magnitudes, t \in TimeHorizons }

\* objective_data of create_fund
ObjectiveData ==
    { EmptyData }
        \cup { [magnitude |-> m, time_horizon |-> t, bounds |-> b] :
                  m \in Magnitudes, t \in TimeHorizons, b \in Bounds }

FundIds == { "f1", "f2" }

CooperativeFund(fund_id, target_objective) ==
    [fund_id                  |-> fund_id,
     target_objective         |-> target_objective,
     status                   |-> "OPEN",
     contributions            |-> <<>>,
     deployed_task_cluster_id |-> None]

\* CooperativeInvestingEngine.create_fund(fund_id, target_objective)
FundCreated(fund_id, target_objective) ==
    funds' = With(funds, fund_id, CooperativeFund(fund_id, target_objective))

\* The rest of the protocol's create_fund once the target is constructed.
FundOf(fund_id, target) ==
    IF Raised(target)
    THEN /\ reply' = target
         /\ UNCHANGED funds
    ELSE /\ FundCreated(fund_id, target)
         /\ reply' = fund_id

\* EconomyProtocol.create_fund(fund_id, objective_data)
CreateFund(fund_id, objective_data) ==
    /\ FundOf(fund_id,
              ImpactVector("TECHNICAL",
                           Get(objective_data, "magnitude", One),
                           Get(objective_data, "time_horizon", Fx(10)),
                           Get(objective_data, "bounds",
                               <<Half, FxD(1, 5000, 0, 0)>>)))
    /\ UNCHANGED <<surplusVars, negotiationVars, recalibration, scenarioVars,
                   surplus_pools, negotiation_results, sessions, vector, forecastingVars, entries,
                   agent_balances, returned>>

\* registry.translate("technical", data)
Translate(data) ==
    /\ vector' = TechnicalMapper(data)
    /\ UNCHANGED <<surplusVars, negotiationVars, recalibration, scenarioVars,
                   protocolVars, ledgerVars, forecastingVars>>

VectorNext ==
    \/ \E data \in TechnicalData : Translate(data)
    \/ \E f \in FundIds, data \in ObjectiveData : CreateFund(f, data)

VectorSpec == SurplusInit /\ [][VectorNext]_vars

(***************************************************************************)
(* ImpactProjection.to_dict and from_dict, on projections as the           *)
(* forecasting layer returns them.                                         *)
(***************************************************************************)

\* The values of the members of ImpactCategory.
ImpactCategoryValues ==
    [REVENUE |-> "revenue", RESEARCH |-> "research", EFFICIENCY |-> "efficiency",
     SOCIAL |-> "social", ECOSYSTEM |-> "ecosystem", TECHNICAL |-> "technical"]

\* Whether a member of ImpactCategory has the value.
IsCategoryValue(value) ==
    \E c \in DOMAIN ImpactCategoryValues : ImpactCategoryValues[c] = value

\* ImpactCategory(value): the member with the value, or the ValueError.
ImpactCategory(value) ==
    IF IsCategoryValue(value)
    THEN CHOOSE c \in DOMAIN ImpactCategoryValues : ImpactCategoryValues[c] = value
    ELSE ValueError("not a valid ImpactCategory")

\* An ImpactVector with the fields that have defaults.
VectorWith(v, causal_dependencies, domain_weights, metrics) ==
    IF Raised(v) THEN v
    ELSE [category            |-> v.category,
          magnitude           |-> v.magnitude,
          time_horizon        |-> v.time_horizon,
          uncertainty_bounds  |-> v.uncertainty_bounds,
          causal_dependencies |-> causal_dependencies,
          domain_weights      |-> domain_weights,
          metrics             |-> metrics]

\* A variant that writes the name of the category.
VectorToDictByName(v) == v

\* ImpactVector.to_dict()
VectorToDict(v) == [v EXCEPT !.category = ImpactCategoryValues[v.category]]

\* from_dict, the construction of one vector from its dict
VectorFromDict(d) ==
    IF ~IsCategoryValue(d["category"]) THEN ImpactCategory(d["category"])
    ELSE VectorWith(ImpactVector(ImpactCategory(d["category"]), d["magnitude"],
                                 d["time_horizon"], d["uncertainty_bounds"]),
                    Get(d, "causal_dependencies", <<>>),
                    Get(d, "domain_weights", EmptyData),
                    Get(d, "metrics", EmptyData))

ImpactProjection(task_id, target_vector, mean, std, interval, effect_chain, timestamp, metadata) ==
    [task_id             |-> task_id,
     target_vector       |-> target_vector,
     distribution_mean   |-> mean,
     distribution_std    |-> std,
     confidence_interval |-> interval,
     effect_chain        |-> effect_chain,
     timestamp           |-> timestamp,
     metadata            |-> metadata]

\* ImpactProjection.to_dict()
ToDict(p) ==
    [p EXCEPT !.target_vector = VectorToDict(p.target_vector),
              !.effect_chain  = [i \in 1..Len(p.effect_chain) |->
                                   VectorToDict(p.effect_chain[i])]]

\* time.time() at the call of from_dict
Now == Fx(2000)

\* ImpactProjection.from_dict(data): the projection, or the first error
\* raised by the construction of a vector.
FromDict(data) ==
    IF Raised(VectorFromDict(data["target_vector"]))
    THEN VectorFromDict(data["target_vector"])
    ELSE IF \E i \in 1..Len(Get(data, "effect_chain", <<>>)) :
                Raised(VectorFromDict(data["effect_chain"][i]))
    THEN VectorFromDict(data["effect_chain"][
             CHOOSE i \in 1..Len(data["effect_chain"]) :
                /\ Raised(VectorFromDict(data["effect_chain"][i]))
                /\ \A j \in 1..(i - 1) : ~Raised(VectorFromDict(data["effect_chain"][j]))])
    ELSE ImpactProjection(data["task_id"],
                          VectorFromDict(data["target_vector"]),
                          data["distribution_mean"],
                          data["distribution_std"],
                          data["confidence_interval"],
                          [i \in 1..Len(Get(data, "effect_chain", <<>>)) |->
                              VectorFromDict(data["effect_chain"][i])],
                          Get(data, "timestamp", Now),
                          Get(data, "metadata", EmptyData))

\* A first-order vector of each category, the task's metrics kept in it.
TargetVectors ==
    { VectorWith(ImpactVector(c, Fx(100), Fx(30), <<Fx(80), Fx(120)>>),
                 <<"t0">>, EmptyData, [expected_value |-> Fx(100)]) :
        c \in DOMAIN ImpactCategoryValues }

\* The effects of the second and third order that _simulate_chain appends.
Effect(c, magnitude) ==
    VectorWith(ImpactVector(c, magnitude, Fx(60), <<FxD(0, 9000, 0, 0), FxD(1, 1000, 0, 0)>>),
               <<>>, EmptyData, EmptyData)

EffectChains(v) ==
    { <<v>>, <<v, Effect("REVENUE", Fx(48))>>,
      <<v, Effect("EFFICIENCY", Fx(96)), Effect("SOCIAL", FxD(7, 6800, 0, 0))>> }

ProjectionMetadata == { EmptyData, [simulations |-> 100, agent_role |-> "dev"] }

Projections ==
    { ImpactProjection(t, v, FxD(151, 2345, 0, 0), FxD(12, 5, 0, 0),
                       <<FxD(127, 6947, 0, 0), FxD(174, 7743, 0, 0)>>, chain,
                       Fx(1700), md) :
        t \in {"t1", "t2"}, v \in TargetVectors,
        chain \in UNION { EffectChains(w) : w \in TargetVectors }, md \in ProjectionMetadata }

Roundtrip(p, data, reconstructed) ==
    [projection |-> p, data |-> data, reconstructed |-> reconstructed]

\* projection = self.forecaster.project(task)
Project(p) ==
    /\ IF serialized = None THEN TRUE ELSE serialized.reconstructed # None
    /\ serialized' = Roundtrip(p, None, None)
    /\ UNCHANGED <<surplusVars, negotiationVars, recalibration, risk_high, risk_low,
                   workers, protocolVars, vector, forecastingVars, ledgerVars>>

\* data = projection.to_dict()
Serialize ==
    /\ serialized # None
    /\ serialized.data = None
    /\ serialized' = [serialized EXCEPT !.data = ToDict(serialized.projection)]
    /\ UNCHANGED <<surplusVars, negotiationVars, recalibration, risk_high, risk_low,
                   workers, protocolVars, vector, forecastingVars, ledgerVars>>

\* reconstructed = ImpactProjection.from_dict(data)
Reconstruct ==
    /\ serialized # None
    /\ serialized.data # None
    /\ serialized.reconstructed = None
    /\ serialized' = [serialized EXCEPT !.reconstructed = FromDict(serialized.data)]
    /\ UNCHANGED <<surplusVars, negotiationVars, recalibration, risk_high, risk_low,
                   workers, protocolVars, vector, forecastingVars, ledgerVars>>

RoundtripNext ==
    \/ \E p \in Projections : Project(p)
    \/ Serialize
    \/ Reconstruct

RoundtripSpec == SurplusInit /\ [][RoundtripNext]_vars

(***************************************************************************)
(* The ledger and the cooperative funds.  A ledger is the record of its    *)
(* entries and of the balance cache; entry ids are the positions of the    *)
(* entries, every uuid being new.                                          *)
(***************************************************************************)

SYSTEM_ACCOUNT == "SYSTEM_SURPLUS_ISSUANCE"

\* The spellings of the categories that the enum resolves, by value and by
\* name.
Spellings ==
    [revenue |-> "REVENUE", research |-> "RESEARCH", efficiency |-> "EFFICIENCY",
     social |-> "SOCIAL", ecosystem |-> "ECOSYSTEM", technical |-> "TECHNICAL",
     REVENUE |-> "REVENUE", RESEARCH |-> "RESEARCH", EFFICIENCY |-> "EFFICIENCY",
     SOCIAL |-> "SOCIAL", ECOSYSTEM |-> "ECOSYSTEM", TECHNICAL |-> "TECHNICAL"]

\* ImpactCategory(s.lower()) or ImpactCategory[s.upper()], TECHNICAL staying
\* when neither resolves.
CategoryOf(s) == IF s \in DOMAIN Spellings THEN Spellings[s] ELSE "TECHNICAL"

\* max(pool.aggregated_vectors, key=pool.aggregated_vectors.get): the first
\* key with the largest value, the dict being a sequence of pairs.
MaxKey(d) ==
    d[CHOOSE i \in 1..Len(d) :
          /\ \A j \in 1..Len(d) : ~FLt(d[i][2], d[j][2])
          /\ \A j \in 1..(i - 1) : FLt(d[j][2], d[i][2])][1]

\* claim_map.get(agent_id): the last claim of the agent, or None
ClaimOf(cs, agent_id) ==
    IF \E i \in 1..Len(cs) : cs[i].agent_id = agent_id
    THEN cs[CHOOSE i \in 1..Len(cs) :
               /\ cs[i].agent_id = agent_id
               /\ \A j \in (i + 1)..Len(cs) : cs[j].agent_id # agent_id]
    ELSE None

\* Lines 44-67: the category of the credit.
CreditCategory(claim, p) ==
    IF claim = None THEN "TECHNICAL"
    ELSE IF claim.task_ids = <<>> THEN "TECHNICAL"
    ELSE IF "primary_category" \in DOMAIN claim.metadata
    THEN CategoryOf(claim.metadata.primary_category)
    ELSE IF p.aggregated_vectors # <<>> THEN CategoryOf(MaxKey(p.aggregated_vectors))
    ELSE "TECHNICAL"

\* A variant that names the claim as the origin of the credit.
CreditProvenanceOfClaim(cluster_id, claim) ==
    [surplus_event_id      |-> IF claim = None THEN cluster_id ELSE claim.agent_id,
     contribution_claim_id |-> IF claim = None THEN None ELSE claim.agent_id]

CreditProvenance(cluster_id, claim) ==
    [surplus_event_id      |-> cluster_id,
     contribution_claim_id |-> IF claim = None THEN None ELSE claim.agent_id]

CreditEntry(entry_id, agent_id, amount, entry_type, impact_vector, domain_context, provenance) ==
    [entry_id       |-> entry_id,
     agent_id       |-> agent_id,
     amount         |-> amount,
     entry_type     |-> entry_type,
     impact_vector  |-> impact_vector,
     domain_context |-> domain_context,
     provenance     |-> provenance]

Ledger(es, balances) == [entries |-> es, agent_balances |-> balances]

\* self._agent_balances[agent_id].get(category, 0.0)
CategoryBalance(balances, agent_id, category) ==
    IF agent_id \in DOMAIN balances
    THEN Get(balances[agent_id], category, Zero)
    ELSE Zero

\* _add_entry(entry)
AddEntry(l, entry) ==
    Ledger(Append(l.entries, entry),
           With(l.agent_balances, entry.agent_id,
                With(IF entry.agent_id \in DOMAIN l.agent_balances
                     THEN l.agent_balances[entry.agent_id]
                     ELSE [c \in {} |-> Zero],
                     entry.domain_context,
                     Round6(XAdd(CategoryBalance(l.agent_balances, entry.agent_id,
                                                 entry.domain_context),
                                 entry.amount)))))

\* sum(d.values())
RECURSIVE XSumOver(_, _)
XSumOver(d, keys) ==
    IF keys = {} THEN Zero
    ELSE LET k == CHOOSE k \in keys : TRUE
         IN  XAdd(d[k], XSumOver(d, keys \ {k}))

\* get_agent_balance(agent_id).total_balance
TotalBalance(balances, agent_id) ==
    IF agent_id \in DOMAIN balances
    THEN Round6(XSumOver(balances[agent_id], DOMAIN balances[agent_id]))
    ELSE Zero

\* sum(e.amount for e in self.entries)
RECURSIVE EntrySumFrom(_, _, _)
EntrySumFrom(es, i, acc) ==
    IF i > Len(es) THEN acc ELSE EntrySumFrom(es, i + 1, XAdd(acc, es[i].amount))

\* audit_ledger()
AuditLedger(es, balances) ==
    [entry_count     |-> Len(es),
     net_balance     |-> Round8(EntrySumFrom(es, 1, Zero)),
     integrity_check |-> IF XLt(XAbs(EntrySumFrom(es, 1, Zero)), FxD(0, 0, 100, 0))
                         THEN "passed" ELSE "failed",
     system_issuance |-> TotalBalance(balances, SYSTEM_ACCOUNT)]

\* verify_provenance(entry_id)
VerifyProvenance(es, entry_id) ==
    IF \E i \in 1..Len(es) : es[i].entry_id = entry_id
    THEN [entry_id          |-> entry_id,
          agent_id          |-> es[entry_id].agent_id,
          origin_surplus_id |-> es[entry_id].provenance.surplus_event_id,
          impact_magnitude  |-> es[entry_id].impact_vector.magnitude,
          impact_category   |-> es[entry_id].domain_context]
    ELSE None

\* Lines 87-114: the credit of the agent, the debit of the system account.
Credited(l, agent_id, amount, impact, category, provenance) ==
    AddEntry(AddEntry(l, CreditEntry(Len(l.entries) + 1, agent_id, amount, "CREDIT",
                                     impact, category, provenance)),
             CreditEntry(Len(l.entries) + 2, SYSTEM_ACCOUNT, XNeg(amount), "DEBIT",
                         impact, category, provenance))

\* The state of the loop of record_negotiated_allocations.
Recording(l, ids, raised) == [ledger |-> l, new_entry_ids |-> ids, raised |-> raised]

\* Lines 69-114 for one agent, the vector of the credit being impact.
RecordedOne(r, agent_id, amount, impact, category, provenance) ==
    IF Raised(impact) THEN Recording(r.ledger, r.new_entry_ids, impact)
    ELSE Recording(Credited(r.ledger, agent_id, amount, impact, category, provenance),
                   Append(r.new_entry_ids, Len(r.ledger.entries) + 1), None)

\* Lines 37-114: the loop over allocations.items(), from item i on.
RECURSIVE RecordedFrom(_, _, _, _, _)
RecordedFrom(r, p, allocations, cs, i) ==
    IF i > Len(allocations) \/ r.raised # None THEN r
    ELSE IF XLe(allocations[i].amount, Zero)
    THEN RecordedFrom(r, p, allocations, cs, i + 1)
    ELSE RecordedFrom(
             RecordedOne(r, allocations[i].agent_id, allocations[i].amount,
                         ImpactVector(CreditCategory(ClaimOf(cs, allocations[i].agent_id), p),
                                      allocations[i].amount,
                                      Get(p.metadata, "avg_time_horizon", One),
                                      p.confidence_interval),
                         CreditCategory(ClaimOf(cs, allocations[i].agent_id), p),
                         CreditProvenance(p.cluster_id,
                                          ClaimOf(cs, allocations[i].agent_id))),
             p, allocations, cs, i + 1)

\* The most entries a ledger is followed to.
MaxEntries == 4

\* What the last ledger or fund operation was called with, what it returned
\* or raised, and the balances it found.
Called(op, args, value, raised) ==
    [op |-> op, args |-> args, value |-> value, raised |-> raised,
     before |-> agent_balances]

\* record_negotiated_allocations(pool, negotiation_results, claims)
RecordNegotiatedAllocations(p, results, cs) ==
    /\ \E r \in { RecordedFrom(Recording(Ledger(entries, agent_balances), <<>>, None),
                                p, results.final_allocations, cs, 1) } :
          /\ Len(r.ledger.entries) <= MaxEntries
          /\ entries' = r.ledger.entries
          /\ agent_balances' = r.ledger.agent_balances
          /\ returned' = Called("record_negotiated_allocations",
                                  [pool |-> p, negotiation_results |-> results,
                                   claims |-> cs],
                                  r.new_entry_ids, r.raised)
    /\ UNCHANGED <<surplusVars, negotiationVars, recalibration, scenarioVars,
                   protocolVars, vector, forecastingVars, funds>>

\* fund.total_pooled
RECURSIVE PooledFrom(_, _, _)
PooledFrom(contributions, i, acc) ==
    IF i > Len(contributions) THEN acc
    ELSE PooledFrom(contributions, i + 1, XAdd(acc, contributions[i].amount))

TotalPooled(fund) == PooledFrom(fund.contributions, 1, Zero)

FundAccount(fund_id) == "FUND_" \o fund_id

FundProvenance(fund_id) ==
    [surplus_event_id      |-> "COOP_FUND_INVESTMENT_" \o fund_id,
     contribution_claim_id |-> None]

\* Lines 46-79: the debit of the agent and the credit of the fund account.
Pooled(l, fund, agent_id, amount) ==
    AddEntry(AddEntry(l, CreditEntry(Len(l.entries) + 1, agent_id, XNeg(amount),
                                     "DEBIT", fund.target_objective,
                                     fund.target_objective.category,
                                     FundProvenance(fund.fund_id))),
             CreditEntry(Len(l.entries) + 2, FundAccount(fund.fund_id), amount,
                         "CREDIT", fund.target_objective,
                         fund.target_objective.category,
                         FundProvenance(fund.fund_id)))

\* Variants of the refusal: one that tests the fund id only, one that
\* tests the sign of the balance instead of comparing it with the amount.
RefusedUnknown(fund_id, agent_id, amount) == fund_id \notin DOMAIN funds

RefusedOverdrawn(fund_id, agent_id, amount) ==
    \/ fund_id \notin DOMAIN funds
    \/ funds[fund_id].status # "OPEN"
    \/ XLt(TotalBalance(agent_balances, agent_id), Zero)

\* Whether allocate_credits_to_fund returns False.
Refused(fund_id, agent_id, amount) ==
    \/ fund_id \notin DOMAIN funds
    \/ funds[fund_id].status # "OPEN"
    \/ XLt(TotalBalance(agent_balances, agent_id), amount)

\* allocate_credits_to_fund(fund_id, agent_id, amount)
AllocateCreditsToFund(fund_id, agent_id, amount) ==
    /\ returned' = Called("allocate_credits_to_fund",
                            [fund_id |-> fund_id, agent_id |-> agent_id,
                             amount |-> amount],
                            ~Refused(fund_id, agent_id, amount), None)
    /\ IF Refused(fund_id, agent_id, amount)
       THEN UNCHANGED <<entries, agent_balances, funds>>
       ELSE /\ Len(entries) + 2 <= MaxEntries
            /\ \E l \in { Pooled(Ledger(entries, agent_balances), funds[fund_id],
                                   agent_id, amount) } :
                   /\ entries' = l.entries
                   /\ agent_balances' = l.agent_balances
            /\ funds' = [funds EXCEPT ![fund_id].contributions =
                            Append(@, [agent_id |-> agent_id, amount |-> amount])]
    /\ UNCHANGED <<surplusVars, negotiationVars, recalibration, scenarioVars,
                   protocolVars, vector, forecastingVars>>

\* create_fund(fund_id, target_objective)
CreateFundFor(fund_id, target_objective) ==
    /\ FundCreated(fund_id, target_objective)
    /\ returned' = Called("create_fund",
                            [fund_id |-> fund_id, target_objective |-> target_objective],
                            CooperativeFund(fund_id, target_objective), None)
    /\ UNCHANGED <<surplusVars, negotiationVars, recalibration, scenarioVars,
                   protocolVars, vector, forecastingVars, entries, agent_balances>>

\* Whether deploy_fund returns False.
NotDeployed(fund_id, recommendation) ==
    \/ fund_id \notin DOMAIN funds
    \/ funds[fund_id].status # "OPEN"
    \/ recommendation = "REJECT"

\* deploy_fund(fund_id, cluster_id, evaluation)
DeployFund(fund_id, cluster_id, recommendation) ==
    /\ returned' = Called("deploy_fund",
                            [fund_id |-> fund_id, cluster_id |-> cluster_id,
                             recommendation |-> recommendation],
                            ~NotDeployed(fund_id, recommendation), None)
    /\ IF NotDeployed(fund_id, recommendation)
       THEN UNCHANGED funds
       ELSE funds' = [funds EXCEPT ![fund_id].status = "DEPLOYED",
                                   ![fund_id].deployed_task_cluster_id = cluster_id]
    /\ UNCHANGED <<surplusVars, negotiationVars, recalibration, scenarioVars,
                   protocolVars, vector, forecastingVars, entries, agent_balances>>

\* tests/test_ledger.py: the pool, and one with its interval the wrong way
LedgerPool(cluster_id, ci_low, ci_high, metadata) ==
    [cluster_id          |-> cluster_id,
     total_surplus       |-> Fx(150),
     confidence_interval |-> <<ci_low, ci_high>>,
     aggregated_vectors  |-> << <<"RESEARCH", Fx(100)>>, <<"TECHNICAL", Fx(50)>> >>,
     task_ids            |-> <<"task-1", "task-2">>,
     metadata            |-> metadata]

LedgerPools ==
    { LedgerPool("cluster-888", Fx(140), Fx(160), [avg_time_horizon |-> Fx(30)]),
      LedgerPool("cluster-889", Fx(160), Fx(140), EmptyData) }

Allocation(agent_id, amount) == [agent_id |-> agent_id, amount |-> amount]

NegotiationResults(allocations, rounds) ==
    [final_allocations |-> allocations, rounds_to_convergence |-> rounds]

\* Results as negotiate_splits returns them, amounts to 4 decimals, and one
\* whose second amount is not a number.
LedgerResults ==
    { NegotiationResults(<< Allocation("agent-alpha", Fx(90)),
                            Allocation("agent-beta", Fx(60)) >>, 12),
      NegotiationResults(<< Allocation("agent-alpha", Zero),
                            Allocation("agent-beta", FxD(150, 1234, 0, 0)) >>, 50),
      NegotiationResults(<< Allocation("agent-beta", FNeg(Fx(10))),
                            Allocation("agent-gamma", Fx(160)) >>, 3),
      NegotiationResults(<< Allocation("agent-alpha", Fx(90)),
                            Allocation("agent-beta", NaN) >>, 1) }

LedgerClaim(agent_id, marginal_impact_estimate, task_ids, metadata) ==
    [agent_id                 |-> agent_id,
     marginal_impact_estimate |-> marginal_impact_estimate,
     task_ids                 |-> task_ids,
     metadata                 |-> metadata]

LedgerClaims ==
    { << LedgerClaim("agent-alpha", Fx(85), <<"task-1">>,
                     [primary_category |-> "RESEARCH"]),
         LedgerClaim("agent-beta", Fx(55), <<"task-2">>, EmptyData) >>,
      << LedgerClaim("agent-beta", Fx(55), <<>>, [primary_category |-> "social"]) >> }

LedgerAgents == { "agent-alpha", "agent-beta" }

LedgerFunds == { "eco_boost_2026" }

\* tests/test_cooperation.py: the objective of the fund
Objectives == { ImpactVector("ECOSYSTEM", Fx(500), Two, <<Fx(400), Fx(600)>>) }

\* Amounts offered to a fund: a part of a balance, a whole balance of
\* LedgerResults, less than the ledger resolves, and two that are not numbers.
Amounts == { Fx(40), FxD(150, 1234, 0, 0), FxD(0, 0, 40, 0), NaN, Infinity(TRUE) }

Recommendations == { "INVEST", "REJECT" }

LedgerNext ==
    \/ \E p \in LedgerPools, r \in LedgerResults, cs \in LedgerClaims :
          RecordNegotiatedAllocations(p, r, cs)
    \/ \E f \in LedgerFunds, o \in Objectives : CreateFundFor(f, o)
    \/ \E f \in LedgerFunds, a \in LedgerAgents, amount \in Amounts :
          AllocateCreditsToFund(f, a, amount)
    \/ \E f \in LedgerFunds, r \in Recommendations : DeployFund(f, "cluster-888", r)

LedgerSpec == SurplusInit /\ [][LedgerNext]_vars

(***************************************************************************)
(* The causal rules of the forecasting layer under update_causal_rule and  *)
(* recalibrate_forecasting_weights.                                        *)
(***************************************************************************)

\* max(a, b) and min(a, b) of Python: the first argument unless the second
\* is found greater, or smaller.
XMax(a, b) == IF XLt(a, b) THEN b ELSE a

XMin(a, b) == IF XLt(b, a) THEN b ELSE a

\* Line 171: the probability after the delta.
NewProbability(prob, probability_delta) ==
    XMax(Zero, XMin(One, XAdd(prob, probability_delta)))

\* A variant that adds the delta and bounds nothing.
NewMultiplierUnbounded(mult, multiplier_delta) == XAdd(mult, multiplier_delta)

\* Line 172: the multiplier after the delta.
NewMultiplier(mult, multiplier_delta) ==
    XMax(FxD(0, 1000, 0, 0), XAdd(mult, multiplier_delta))

\* Lines 165-177: the rules of one source category after the loop.
UpdatedRules(rules, target_category, probability_delta, multiplier_delta) ==
    [i \in 1..Len(rules) |->
        IF rules[i][1] = target_category
        THEN <<rules[i][1], NewProbability(rules[i][2], probability_delta),
               NewMultiplier(rules[i][3], multiplier_delta)>>
        ELSE rules[i]]

\* The most update_causal_rule calls followed.
MaxUpdates == 4

\* update_causal_rule as a step of the forecasting layer
CausalRuleUpdated(source_category, target_category, probability_delta, multiplier_delta) ==
    /\ rule_updates < MaxUpdates
    /\ rule_updates' = rule_updates + 1
    /\ rule_call' = [source_category   |-> source_category,
                     target_category   |-> target_category,
                     probability_delta |-> probability_delta,
                     multiplier_delta  |-> multiplier_delta]
    /\ causal_rules' =
          IF source_category \notin DOMAIN causal_rules
          THEN causal_rules
          ELSE [causal_rules EXCEPT ![source_category] =
                   UpdatedRules(@, target_category, probability_delta, multiplier_delta)]

\* update_causal_rule(source_category, target_category, probability_delta,
\* multiplier_delta)
UpdateCausalRule(source_category, target_category, probability_delta, multiplier_delta) ==
    /\ CausalRuleUpdated(source_category, target_category, probability_delta,
                         multiplier_delta)
    /\ UNCHANGED <<surplusVars, negotiationVars, recalibration, scenarioVars,
                   protocolVars, vector, ledgerVars>>

\* recalibration.py:159: actual magnitude over predicted magnitude
MagRatio(actual_outcome, predicted_final) ==
    IF FIsPos(predicted_final.magnitude)
    THEN FDiv(actual_outcome.magnitude, predicted_final.magnitude)
    ELSE One

\* The learning rate of line 145.
WeightLearningRate == FxD(0, 200, 0, 0)

\* recalibrate_forecasting_weights(projection, actual_outcome), chain being
\* projection.effect_chain
RecalibrateForecastingWeights(chain, actual_outcome) ==
    /\ IF Len(chain) < 2
       THEN UNCHANGED forecastingVars
       ELSE IF actual_outcome.category = chain[Len(chain)].category
       THEN IF FLt(FxD(0, 1000, 0, 0),
                   FAbs(FSub(MagRatio(actual_outcome, chain[Len(chain)]), One)))
            THEN CausalRuleUpdated(
                     chain[Len(chain) - 1].category, chain[Len(chain)].category, Zero,
                     FMul(FSub(MagRatio(actual_outcome, chain[Len(chain)]), One),
                          WeightLearningRate))
            ELSE UNCHANGED forecastingVars
       ELSE CausalRuleUpdated(chain[1].category, chain[2].category,
                              FNeg(WeightLearningRate), Zero)
    /\ UNCHANGED <<surplusVars, negotiationVars, recalibration, scenarioVars,
                   protocolVars, vector, ledgerVars>>

\* tests/test_recalibration.py:56-60: TECHNICAL (100) -> EFFICIENCY (120);
\* the chain the other way round, whose transition is no rule; a chain of
\* one vector.
Chains ==
    { << Effect("TECHNICAL", Fx(100)), Effect("EFFICIENCY", Fx(120)) >>,
      << Effect("EFFICIENCY", Fx(120)), Effect("TECHNICAL", Fx(100)) >>,
      << Effect("TECHNICAL", Fx(100)) >> }

\* Outcomes: the 150 of the test, 125 (within the tolerance), 1, and an
\* outcome of another category.
ActualOutcomes ==
    { Effect("EFFICIENCY", Fx(150)), Effect("EFFICIENCY", Fx(125)),
      Effect("TECHNICAL", Fx(1)), Effect("REVENUE", Fx(150)) }

\* Source categories named in a call: one with rules, one without.
SourceCategories == { "TECHNICAL", "REVENUE" }

\* Target categories named in a call: EFFICIENCY and ECOSYSTEM follow
\* TECHNICAL, SOCIAL does not.
TargetCategories == { "EFFICIENCY", "ECOSYSTEM", "SOCIAL" }

\* (probability_delta, multiplier_delta): beyond both bounds in either
\* direction, not a number, and infinite.
RuleDeltas ==
    { <<Half, FNeg(Two)>>, <<FNeg(One), Fx(3)>>, <<NaN, NaN>>,
      <<Infinity(TRUE), Infinity(FALSE)>>, <<Infinity(FALSE), Infinity(TRUE)>> }

ForecastingNext ==
    \/ \E s \in SourceCategories, t \in TargetCategories, d \in RuleDeltas :
          UpdateCausalRule(s, t, d[1], d[2])
    \/ \E chain \in Chains, actual \in ActualOutcomes :
          RecalibrateForecastingWeights(chain, actual)

ForecastingSpec == SurplusInit /\ [][ForecastingNext]_vars

(***************************************************************************)
(* Funds offered amounts of either sign on a ledger that starts empty.     *)
(***************************************************************************)

\* Amounts offered to a fund: 40, nothing, 40 and 4e-7 below zero, and 4e-7.
SignedAmounts ==
    { Fx(40), Zero, FNeg(Fx(40)), FxD(0, 0, 40, 0), FNeg(FxD(0, 0, 40, 0)) }

FundingNext ==
    \/ \E r \in LedgerResults, cs \in LedgerClaims :
          /\ r.rounds_to_convergence = 12
          /\ RecordNegotiatedAllocations(
                 LedgerPool("cluster-888", Fx(140), Fx(160), [avg_time_horizon |-> Fx(30)]),
                 r, cs)
    \/ \E f \in LedgerFunds, o \in Objectives : CreateFundFor(f, o)
    \/ \E f \in LedgerFunds, a \in LedgerAgents, amount \in SignedAmounts :
          AllocateCreditsToFund(f, a, amount)

FundingSpec == SurplusInit /\ [][FundingNext]_vars

(***************************************************************************)
(* commit_allocations: the stored result of a cluster handed to the        *)
(* ledger, after compute_cooperative_surplus and run_negotiation on the    *)
(* same protocol.                                                          *)
(***************************************************************************)

\* allocations.items(): one item for each agent id, in the order in which
\* the ids were first inserted.
RECURSIVE ItemsFrom(_, _, _)
ItemsFrom(d, cs, i) ==
    IF i > Len(cs) THEN <<>>
    ELSE IF \E j \in 1..(i - 1) : cs[j].agent_id = cs[i].agent_id
    THEN ItemsFrom(d, cs, i + 1)
    ELSE <<Allocation(cs[i].agent_id, d[cs[i].agent_id])>> \o ItemsFrom(d, cs, i + 1)

\* A variant in which the result stored for the cluster gives the whole
\* surplus of the stored pool to one agent.
CommittedWhole(cluster_id) ==
    [pool    |-> [cluster_id          |-> cluster_id,
                  total_surplus       |-> surplus_pools[cluster_id].total_surplus,
                  confidence_interval |-> <<Zero, surplus_pools[cluster_id].total_surplus>>,
                  aggregated_vectors  |-> <<>>,
                  task_ids            |-> surplus_pools[cluster_id].task_ids,
                  metadata            |-> EmptyData],
     results |-> NegotiationResults(
                     <<Allocation("agent-A", surplus_pools[cluster_id].total_surplus)>>, 1),
     claims  |-> <<>>]

\* Lines 165-168: what record_negotiated_allocations is called with.
Committed(cluster_id) ==
    [pool    |-> surplus_pools[cluster_id],
     results |-> NegotiationResults(
                     ItemsFrom(negotiation_results[cluster_id][1].final_allocations,
                               negotiation_results[cluster_id][2], 1),
                     negotiation_results[cluster_id][1].rounds_to_convergence),
     claims  |-> negotiation_results[cluster_id][2]]

\* commit_allocations(cluster_id)
CommitAllocations(cluster_id) ==
    /\ IF cluster_id \notin DOMAIN negotiation_results
       THEN /\ reply' = <<>>
            /\ UNCHANGED <<entries, agent_balances, returned>>
       ELSE \E c \in {Committed(cluster_id)} :
            \E r \in { RecordedFrom(Recording(Ledger(entries, agent_balances), <<>>, None),
                                    c.pool, c.results.final_allocations, c.claims, 1) } :
                /\ Len(r.ledger.entries) <= MaxEntries
                /\ entries' = r.ledger.entries
                /\ agent_balances' = r.ledger.agent_balances
                /\ returned' = Called("record_negotiated_allocations",
                                        [pool |-> c.pool, negotiation_results |-> c.results,
                                         claims |-> c.claims],
                                        r.new_entry_ids, r.raised)
                /\ reply' = IF r.raised = None THEN r.new_entry_ids ELSE r.raised
    /\ UNCHANGED <<surplusVars, negotiationVars, recalibration, scenarioVars,
                   surplus_pools, negotiation_results, sessions, vector, forecastingVars, funds>>

\* The clusters whose surplus is computed: "c1" with no task, with one task
\* of mean 100 and with the three tasks of tests/test_surplus.py, "c2" with
\* the one task; both clusters are negotiated and committed.
FlowClusters ==
    { <<"c1", <<>>>>, <<"c1", SingleTask>>, <<"c1", ThreeTasks>>, <<"c2", SingleTask>> }

FlowNext ==
    \/ \E c \in FlowClusters : ComputeCooperativeSurplus(c[1], c[2])
    \/ \E c \in ClusterIds, cd \in ClaimsData : RunNegotiation(c, cd)
    \/ \E c \in ClusterIds : CommitAllocations(c)

FlowSpec == SurplusInit /\ [][FlowNext]_vars

(***************************************************************************)
(* run_concurrency_race_condition_test: threads that call                  *)
(* allocate_credits_to_fund for one agent and one fund, without a lock.    *)
(* A thread can be suspended between the verification of the balance and   *)
(* the entries, and inside _add_entry between the read of the category     *)
(* balance and the assignment of the new one.                              *)
(***************************************************************************)
Threads == { "t1", "t2" }

\* allocations_per_thread, 100 in the test
AllocationsPerThread == 2

STRESS_FUND == "STRESS_FUND_001"

RichAgent == "rich_agent"

\* amount_per_alloc
AmountPerAlloc == Fx(10)

\* The credits minted to the agent, 1,000,000 in the test.
InitialCapital == Fx(20)

StressObjective == ImpactVector("TECHNICAL", Fx(1000), One, <<Fx(900), Fx(1100)>>)

MintProvenance == [surplus_event_id |-> "INITIAL_MINT", contribution_claim_id |-> None]

\* Lines 107-120: the two entries of the mint.
Minted(l) ==
    AddEntry(AddEntry(l, CreditEntry("mint_credit", RichAgent, InitialCapital, "CREDIT",
                                     StressObjective, "TECHNICAL", MintProvenance)),
             CreditEntry("mint_debit", SYSTEM_ACCOUNT, FNeg(InitialCapital), "DEBIT",
                         StressObjective, "TECHNICAL", MintProvenance))

\* A thread: where it is, the calls it has finished, those that returned
\* True, and the category balance its _add_entry has read.
Worker(at, calls, success_count, current) ==
    [pc |-> at, calls |-> calls, success_count |-> success_count, current |-> current]

\* for _ in range(allocations_per_thread)
NextCall(w, success) ==
    Worker(IF w.calls + 1 < AllocationsPerThread THEN "verify" ELSE "done",
           w.calls + 1, w.success_count + success, None)

\* Lines 96-135: the fund, the mint and the start of the threads.
StartWorkers ==
    /\ workers = None
    /\ entries = <<>>
    /\ funds' = With(funds, STRESS_FUND, CooperativeFund(STRESS_FUND, StressObjective))
    /\ \E l \in { Minted(Ledger(entries, agent_balances)) } :
          /\ entries' = l.entries
          /\ agent_balances' = l.agent_balances
    /\ workers' = [t \in Threads |-> Worker("verify", 0, 0, None)]
    /\ UNCHANGED <<surplusVars, negotiationVars, recalibration, risk_high, risk_low,
                   serialized, protocolVars, vector, forecastingVars, returned>>

\* cooperation.py lines 34-44 in thread t
VerifyBalance(t) ==
    /\ workers # None
    /\ workers[t].pc = "verify"
    /\ workers' = [workers EXCEPT ![t] =
                      IF Refused(STRESS_FUND, RichAgent, AmountPerAlloc)
                      THEN NextCall(@, 0)
                      ELSE Worker("debit", @.calls, @.success_count, None)]
    /\ UNCHANGED <<surplusVars, negotiationVars, recalibration, risk_high, risk_low,
                   serialized, protocolVars, vector, forecastingVars, ledgerVars>>

\* The entry thread t is about to add: the debit of the agent or the credit
\* of the fund account.
EntryOf(t) ==
    IF workers[t].pc \in {"debit", "debit_store"}
    THEN CreditEntry(Len(entries) + 1, RichAgent, FNeg(AmountPerAlloc), "DEBIT",
                     StressObjective, "TECHNICAL", FundProvenance(STRESS_FUND))
    ELSE CreditEntry(Len(entries) + 1, FundAccount(STRESS_FUND), AmountPerAlloc, "CREDIT",
                     StressObjective, "TECHNICAL", FundProvenance(STRESS_FUND))

\* ledger.py lines 120-128 in thread t: the entry is appended and the
\* category balance read.
AppendEntry(t) ==
    /\ workers # None
    /\ workers[t].pc \in {"debit", "credit"}
    /\ entries' = Append(entries, EntryOf(t))
    /\ agent_balances' = IF EntryOf(t).agent_id \in DOMAIN agent_balances
                         THEN agent_balances
                         ELSE With(agent_balances, EntryOf(t).agent_id,
                                   [c \in {} |-> Zero])
    /\ workers' = [workers EXCEPT ![t] =
                      Worker(IF @.pc = "debit" THEN "debit_store" ELSE "credit_store",
                             @.calls, @.success_count,
                             CategoryBalance(agent_balances, EntryOf(t).agent_id,
                                             "TECHNICAL"))]
    /\ UNCHANGED <<surplusVars, negotiationVars, recalibration, risk_high, risk_low,
                   serialized, protocolVars, vector, forecastingVars, funds, returned>>

\* ledger.py line 129 in thread t: the balance read, plus the amount, is
\* assigned.
StoreBalance(t) ==
    /\ workers # None
    /\ workers[t].pc \in {"debit_store", "credit_store"}
    /\ agent_balances' = With(agent_balances, EntryOf(t).agent_id,
                              With(agent_balances[EntryOf(t).agent_id], "TECHNICAL",
                                   Round6(XAdd(workers[t].current, EntryOf(t).amount))))
    /\ workers' = [workers EXCEPT ![t] =
                      Worker(IF @.pc = "debit_store" THEN "credit" ELSE "contribute",
                             @.calls, @.success_count, None)]
    /\ UNCHANGED <<surplusVars, negotiationVars, recalibration, risk_high, risk_low,
                   serialized, protocolVars, vector, forecastingVars, entries, funds, returned>>

\* cooperation.py lines 82-89 in thread t
Contribute(t) ==
    /\ workers # None
    /\ workers[t].pc = "contribute"
    /\ funds' = [funds EXCEPT ![STRESS_FUND].contributions =
                    Append(@, [agent_id |-> RichAgent, amount |-> AmountPerAlloc])]
    /\ workers' = [workers EXCEPT ![t] = NextCall(@, 1)]
    /\ UNCHANGED <<surplusVars, negotiationVars, recalibration, risk_high, risk_low,
                   serialized, protocolVars, vector, forecastingVars, entries, agent_balances, returned>>

StressNext ==
    \/ StartWorkers
    \/ \E t \in Threads : VerifyBalance(t)
    \/ \E t \in Threads : AppendEntry(t)
    \/ \E t \in Threads : StoreBalance(t)
    \/ \E t \in Threads : Contribute(t)

StressSpec == SurplusInit /\ [][StressNext]_vars

(***************************************************************************)
(* Properties of negotiate_splits.                                         *)
(***************************************************************************)

\* A call has returned the result of a bargaining session (not the
\* degenerate result).
Negotiated == pc = "returned" /\ "final_deviation" \in DOMAIN result

DistinctIds(cs) ==
    \A i, j \in 1..Len(cs) : i # j => cs[i].agent_id # cs[j].agent_id

\* The claim that decides the entry of its agent in the result: the last one
\* of that agent.
Deciding(cs, i) == \A j \in (i + 1)..Len(cs) : cs[j].agent_id # cs[i].agent_id

RECURSIVE SumOver(_, _)
SumOver(d, keys) ==
    IF keys = {} THEN Zero
    ELSE LET k == CHOOSE k \in keys : TRUE
         IN  FAdd(d[k], SumOver(d, keys \ {k}))

\* The sum of the values of a dict.
DictSum(d) == SumOver(d, DOMAIN d)

\* x and y differ by less than eps / by at most eps
Within(x, y, eps) == FLt(FAbs(FSub(x, y)), eps)

AtMost(x, y, eps) == FLe(FAbs(FSub(x, y)), eps)

Conserved(allocations) ==
    Within(DictSum(allocations), pool.total_surplus, FxD(0, 10, 0, 0))

\* C1: for a pool with total_surplus > 0 and claims of pairwise distinct
\* agents, the allocations of every recorded round and the final allocations
\* sum to total_surplus, with an absolute difference below 1e-3.
C1_Conservation ==
    (Negotiated /\ DistinctIds(claims)) =>
        /\ Conserved(result.final_allocations)
        /\ \A k \in 1..Len(result.history) : Conserved(result.history[k].allocations)

\* C2: a call with no claims or with a pool whose total_surplus <= 0 returns
\* at once, without entering the loop: converged, 0 rounds, an empty
\* allocation map and an empty history, whatever else the arguments hold.
C2_DegenerateReturn ==
    (pc # "idle" /\ (claims = <<>> \/ ~FIsPos(pool.total_surplus))) =>
        /\ pc = "returned"
        /\ result.converged = TRUE
        /\ result.rounds_to_convergence = 0
        /\ result.final_allocations = EmptyDict
        /\ result.history = <<>>

C2_Witness ==
    /\ pc = "returned"
    /\ claims = BalancedClaims
    /\ pool.total_surplus = FNeg(Fx(5))
    /\ result.rounds_to_convergence = 0

\* C3: a call never raises; it returns after at most max_iterations rounds,
\* and a result that is not converged has exactly max_iterations rounds.
C3_ReturnsWithoutRaising ==
    /\ pc # "raised"
    /\ pc = "returned" =>
          /\ result.rounds_to_convergence <= max_iterations
          /\ ~result.converged => result.rounds_to_convergence = max_iterations

\* Half a unit of the fourth decimal: the precision of a reported amount.
ReportPrecision == FxD(0, 0, 5000, 0)

\* C4: with fairness_weight = 1.0, total_surplus > 0 and at least one claim,
\* the final allocation of every agent is the equal split
\* total_surplus / num_agents (to the four decimals of the result).
C4_EqualSplit ==
    (Negotiated /\ fairness_weight = One) =>
        \A i \in 1..Len(claims) :
            AtMost(result.final_allocations[claims[i].agent_id],
                   FDiv(pool.total_surplus, Fx(Len(claims))), ReportPrecision)

C4_Witness ==
    /\ Negotiated
    /\ fairness_weight = One
    /\ claims = BalancedClaims
    /\ result.rounds_to_convergence >= 1
    /\ result.final_allocations["agent-B"] = Fx(500)

\* The efficiency target of claim i as the specification states it.
Efficiency(cs, total_surplus, i) ==
    IF FIsPos(FSum([j \in 1..Len(cs) |-> cs[j].marginal_impact_estimate]))
    THEN FMul(FDiv(cs[i].marginal_impact_estimate,
                   FSum([j \in 1..Len(cs) |-> cs[j].marginal_impact_estimate])),
              total_surplus)
    ELSE FDiv(total_surplus, Fx(Len(cs)))

\* C5: the objective target reported for an agent is
\* (1 - fairness_weight) * efficiency + fairness_weight * total_surplus / n,
\* the efficiency being marginal / sum(marginal) * total_surplus when the sum
\* of the marginal estimates is > 0 and total_surplus / n otherwise.
C5_ObjectiveTargets ==
    Negotiated =>
        \A i \in 1..Len(claims) :
            Deciding(claims, i) =>
                result.objective_targets[claims[i].agent_id] =
                    Round4(FAdd(FMul(FSub(One, fairness_weight),
                                     Efficiency(claims, pool.total_surplus, i)),
                                FMul(fairness_weight,
                                     FDiv(pool.total_surplus, Fx(Len(claims))))))

C5_Witness ==
    /\ Negotiated
    /\ fairness_weight = FxD(0, 9000, 0, 0)
    /\ claims = HighFairnessClaims
    /\ pool.total_surplus = Fx(1000)
    /\ result.objective_targets["A"] = Fx(540)
    /\ result.objective_targets["B"] = Fx(460)

C5_FallbackWitness ==
    /\ Negotiated
    /\ claims = NegativeClaims
    /\ pool.total_surplus = Fx(1000)

\* The session of test_balanced_negotiation on an engine with the defaults.
BalancedDefault ==
    /\ Negotiated
    /\ max_iterations = DefaultMaxIterations
    /\ equilibrium_tolerance = Tol6
    /\ fairness_weight = DefaultFairness
    /\ claims = BalancedClaims
    /\ pool.total_surplus = Fx(1000)

BalancedNearTargets ==
    /\ AtMost(result.final_allocations["agent-A"], Fx(710), One)
    /\ AtMost(result.final_allocations["agent-B"], Fx(290), One)

\* C7 as stated: the balanced session on a default engine returns
\* converged = true with final allocations within 1 of 710 and 290.
C7_BalancedConverges ==
    BalancedDefault => (result.converged = TRUE /\ BalancedNearTargets)

\* C7 as the code has it: the balanced session on a default engine uses up
\* the 50 iterations and returns converged = false, with final allocations
\* within 1 of 710 and 290.
C7_BalancedExhausts ==
    BalancedDefault =>
        /\ result.converged = FALSE
        /\ result.rounds_to_convergence = DefaultMaxIterations
        /\ BalancedNearTargets

C7_Witness ==
    /\ BalancedDefault
    /\ result.final_allocations["agent-A"] = FxD(709, 9986, 0, 0)
    /\ result.final_allocations["agent-B"] = FxD(290, 14, 0, 0)

\* The claims are plausible: positive estimates, margins >= 0, leverage in
\* [0, 1].
Plausible(cs) ==
    \A i \in 1..Len(cs) :
        /\ FIsPos(cs[i].marginal_impact_estimate)
        /\ FLe(Zero, cs[i].uncertainty_margin)
        /\ FLe(Zero, cs[i].dependency_influence_weight)
        /\ FLe(cs[i].dependency_influence_weight, One)

\* C8: a session that reports converged = true after at least one round, with
\* a tolerance <= 1e-6 and plausible claims, leaves every agent within 1.0 of
\* its objective target.
C8_ConvergedAtTarget ==
    (/\ Negotiated
     /\ result.converged
     /\ result.rounds_to_convergence >= 1
     /\ FLe(equilibrium_tolerance, Tol6)
     /\ Plausible(claims)
     /\ DistinctIds(claims)) =>
        \A i \in 1..Len(claims) :
            AtMost(result.final_allocations[claims[i].agent_id],
                   result.objective_targets[claims[i].agent_id], One)

\* C9: an agent whose claim lists no task_ids gets a final allocation of 0.
C9_NonContributorsGetNothing ==
    Negotiated =>
        \A i \in 1..Len(claims) :
            claims[i].task_ids = <<>> =>
                result.final_allocations[claims[i].agent_id] = Zero

\* A session with the arguments of the remembered one has returned.
Replayed ==
    /\ pc = "returned"
    /\ first # None
    /\ pool = first.pool
    /\ claims = first.claims

\* What a session leaves alone: the configuration of the engine and, while it
\* runs, its arguments.
SessionFrame ==
    /\ engineVars' = engineVars
    /\ pc = "loop" => callVars' = callVars

C10_EmptyCluster ==
    (surplus_pool # None /\ projections = <<>>) =>
        /\ "total_surplus" \in DOMAIN surplus_pool
        /\ surplus_pool.total_surplus = Zero
        /\ surplus_pool.task_ids = <<>>

C10_Witness ==
    /\ surplus_pool # None
    /\ projections = <<>>
    /\ synergy_multiplier = MultiplierFloor
    /\ dependency_risk_factor = Zero
    /\ pattern_modifiers # [k \in {} |-> Zero]

\* C11: the pool of a cluster of one projection without causal dependencies
\* has total_surplus equal to the distribution_mean of that projection,
\* whatever synergy_multiplier and dependency_risk_factor are.
C11_SingleTaskSurplus ==
    (/\ surplus_pool # None
     /\ Len(projections) = 1
     /\ Dependencies(projections, 1) = <<>>) =>
        surplus_pool.total_surplus = projections[1].distribution_mean

C11_Witness ==
    /\ surplus_pool # None
    /\ projections = SingleTask
    /\ surplus_pool.total_surplus = Fx(100)
    /\ synergy_multiplier = MultiplierFloor
    /\ dependency_risk_factor = RiskCap

\* The number of causal_dependencies entries of the projections from i on.
RECURSIVE EntriesFrom(_, _)
EntriesFrom(ps, i) ==
    IF i > Len(ps) THEN 0 ELSE Len(Dependencies(ps, i)) + EntriesFrom(ps, i + 1)

\* C12: every causal_dependencies entry is counted once, as internal or as
\* external, so the two counts add up to the number of entries; the cycle
\* A -> B -> C -> A is computed, with 3 internal and 0 external dependencies.
C12_FlatCount ==
    (surplus_pool # None /\ projections # <<>>) =>
        /\ surplus_pool.metadata.internal_dependencies
             + surplus_pool.metadata.external_dependencies
           = EntriesFrom(projections, 1)
        /\ projections = CyclicTasks =>
              /\ surplus_pool.metadata.internal_dependencies = 3
              /\ surplus_pool.metadata.external_dependencies = 0

C12_Witness ==
    /\ surplus_pool # None
    /\ projections = CyclicTasks
    /\ surplus_pool.task_ids = <<"A", "B", "C">>
    /\ surplus_pool.metadata.internal_dependencies = 3

\* C14: whatever updates are applied, directly or by a recalibration,
\* synergy_multiplier stays at or above its floor of 0.01 and
\* dependency_risk_factor is never negative.
C14_ParameterFloors ==
    /\ FLe(MultiplierFloor, synergy_multiplier)
    /\ FLe(Zero, dependency_risk_factor)

\* A recalibration has brought the multiplier down to its floor, and the
\* risk factor is at zero.
C14_Witness ==
    /\ recalibration # None
    /\ recalibration.pc = "returned"
    /\ "synergy_multiplier_delta" \in DOMAIN recalibration.updates
    /\ FLt(FAdd(synergy_multiplier, recalibration.updates.synergy_multiplier_delta),
           Zero)
    /\ synergy_multiplier = MultiplierFloor
    /\ dependency_risk_factor = Zero

\* A recalibration has applied some of its updates and not yet all of them.
Torn ==
    /\ Recalibrating
    /\ Parameters # recalibration.before
    /\ Parameters # Recalibrated(recalibration.before, recalibration.surplus_pool,
                                 recalibration.realized_surplus,
                                 recalibration.deviation_ratio,
                                 RiskDelta(recalibration.surplus_pool,
                                           recalibration.realized_surplus,
                                           recalibration.deviation_ratio))

\* C15: no surplus computation runs on the parameters of a recalibration
\* that has applied some of its updates and not yet the others.
C15_ConsistentGeneration ==
    [][(surplus_pool' # surplus_pool \/ projections' # projections) => ~Torn]_vars

\* Both computations of the scenario are done, on a cluster with an external
\* dependency.
RiskCompared ==
    /\ risk_high # None
    /\ risk_low # None
    /\ risk_high.metadata.external_dependencies > 0

\* C13 as stated: for a cluster with an external dependency, the larger
\* risk factor yields the strictly smaller total_surplus.
C13_RiskStrictlyLowers ==
    RiskCompared => FLt(risk_high.total_surplus, risk_low.total_surplus)

\* C13: for a cluster with an external dependency and a positive base
\* surplus, the larger risk factor yields the strictly smaller
\* total_surplus; with a base surplus of 0 both are 0.
C13_RiskLowersSurplus ==
    RiskCompared =>
        IF FIsPos(BaseSurplus(projections))
        THEN FLt(risk_high.total_surplus, risk_low.total_surplus)
        ELSE risk_high.total_surplus = Zero /\ risk_low.total_surplus = Zero

\* The factors of the stress test, 0.5 and then 0.01, on the three tasks.
C13_Witness ==
    /\ RiskCompared
    /\ projections = ThreeTasks
    /\ risk_high.metadata.risk_discount = FDiv(One, FxD(1, 5000, 0, 0))
    /\ dependency_risk_factor = FxD(0, 100, 0, 0)

\* C16: no pool stored for a cluster goes through more than one negotiation
\* session.
C16_ConsumedOnce == \A c \in DOMAIN sessions : sessions[c] <= 1

\* The properties a validated vector is relied on to have.
ValidVector(v) ==
    /\ IsFinite(v.magnitude)
    /\ FIsPos(v.magnitude)
    /\ XLe(Zero, v.time_horizon)
    /\ \A i \in 1..2 : IsFinite(v.uncertainty_bounds[i])
    /\ FLe(v.uncertainty_bounds[1], v.uncertainty_bounds[2])

\* The vectors held: the one a mapper returned, the objectives of the funds.
HeldVectors ==
    { funds[f].target_objective : f \in DOMAIN funds }
        \cup (IF vector = None \/ Raised(vector) THEN {} ELSE {vector})

\* C17: every ImpactVector held has a finite magnitude > 0, a time_horizon
\* >= 0 and finite, ordered uncertainty bounds, the others having been
\* refused with ValueError at construction.
C17_HeldVectorsValid == \A v \in HeldVectors : ValidVector(v)

\* C18: the amounts of all entries sum to zero and audit_ledger reports
\* integrity_check = "passed".
C18_Balanced ==
    /\ EntrySumFrom(entries, 1, Zero) = Zero
    /\ AuditLedger(entries, agent_balances).integrity_check = "passed"

\* C20: the total_pooled of every fund is the ledger balance of its account
\* FUND_<fund_id>, and an allocation of amount a that returned True has
\* lowered the balance of the agent by a and raised both by a.
C20_FundBackedByLedger ==
    /\ \A f \in DOMAIN funds :
          XEq(TotalPooled(funds[f]), TotalBalance(agent_balances, FundAccount(f)))
    /\ (returned # None /\ returned.op = "allocate_credits_to_fund"
           /\ returned.value) =>
          /\ XEq(XAdd(TotalBalance(agent_balances, returned.args.agent_id),
                      returned.args.amount),
                 TotalBalance(returned.before, returned.args.agent_id))
          /\ XEq(TotalBalance(agent_balances, FundAccount(returned.args.fund_id)),
                 XAdd(TotalBalance(returned.before,
                                   FundAccount(returned.args.fund_id)),
                      returned.args.amount))

\* The last operation was a record_negotiated_allocations that returned.
Recorded ==
    /\ returned # None
    /\ returned.op = "record_negotiated_allocations"
    /\ returned.raised = None

\* The entries the last operation added.
NewEntries == { i \in 1..Len(entries) : i > Len(entries) - 2 * Len(returned.value) }

\* C19: a record_negotiated_allocations that has returned has raised the
\* balance of every agent with a positive final allocation by exactly that
\* allocation and returned the id of exactly one credit entry of that agent,
\* for which verify_provenance gives the cluster_id of the pool as
\* origin_surplus_id; an agent with an allocation <= 0 has no new entry.
C19_RecordedAllocations ==
    Recorded =>
        \A a \in 1..Len(returned.args.negotiation_results.final_allocations) :
            \E item \in {returned.args.negotiation_results.final_allocations[a]} :
                IF XLt(Zero, item.amount)
                THEN /\ TotalBalance(agent_balances, item.agent_id)
                          = XAdd(TotalBalance(returned.before, item.agent_id),
                                 item.amount)
                     /\ Cardinality({ k \in 1..Len(returned.value) :
                                        /\ returned.value[k] \in NewEntries
                                        /\ entries[returned.value[k]].agent_id
                                             = item.agent_id
                                        /\ entries[returned.value[k]].entry_type = "CREDIT"
                                        /\ entries[returned.value[k]].amount = item.amount
                                        /\ VerifyProvenance(entries, returned.value[k])
                                               .origin_surplus_id
                                             = returned.args.pool.cluster_id }) = 1
                ELSE \A i \in NewEntries : entries[i].agent_id # item.agent_id

\* An agent credited a second time, next to an agent whose allocation is 0.
C19_Witness ==
    /\ Recorded
    /\ Len(returned.value) = 1
    /\ returned.args.negotiation_results.rounds_to_convergence = 50
    /\ TotalBalance(returned.before, "agent-beta") = FxD(150, 1234, 0, 0)
    /\ TotalBalance(agent_balances, "agent-beta") = FxD(300, 2468, 0, 0)

(***************************************************************************)
(* Properties of the cooperative funds.                                    *)
(***************************************************************************)

\* The step is a call of allocate_credits_to_fund.
Allocating == returned' # None /\ returned'.op = "allocate_credits_to_fund"

\* C21: allocate_credits_to_fund returns False and leaves the entries, every
\* balance and the contributions of the fund as they were when the fund id
\* is unknown, the fund is not OPEN, or the total balance of the agent is
\* smaller than the amount.
C21_RefusedChangesNothing ==
    [][(/\ Allocating
        /\ \/ returned'.args.fund_id \notin DOMAIN funds
           \/ funds[returned'.args.fund_id].status # "OPEN"
           \/ XLt(TotalBalance(agent_balances, returned'.args.agent_id),
                  returned'.args.amount))
          => /\ returned'.value = FALSE
             /\ UNCHANGED <<entries, agent_balances, funds>>]_vars

\* An agent that could pay is refused by a fund that has been deployed.
C21_Witness ==
    /\ returned # None
    /\ returned.op = "allocate_credits_to_fund"
    /\ returned.value = FALSE
    /\ returned.args.fund_id \in DOMAIN funds
    /\ funds[returned.args.fund_id].status = "DEPLOYED"
    /\ returned.args.amount = Fx(40)
    /\ TotalBalance(agent_balances, returned.args.agent_id) = Fx(90)
    /\ Len(entries) > 0

\* C22: the status of a fund changes only in a deploy_fund that returns
\* True, only from OPEN to DEPLOYED and only on a recommendation other than
\* REJECT; a REJECT leaves the fund OPEN, and a deploy_fund of a DEPLOYED
\* fund returns False and changes neither the status nor
\* deployed_task_cluster_id.
C22_StatusByDeployOnly ==
    [][\A f \in DOMAIN funds :
          /\ (\/ funds'[f].status # funds[f].status
               \/ funds'[f].deployed_task_cluster_id
                     # funds[f].deployed_task_cluster_id)
                => /\ returned'.op = "deploy_fund"
                   /\ returned'.args.fund_id = f
                   /\ returned'.value
                   /\ returned'.args.recommendation # "REJECT"
                   /\ funds[f].status = "OPEN"
                   /\ funds'[f].status = "DEPLOYED"
          /\ (/\ returned' # None
               /\ returned'.op = "deploy_fund"
               /\ returned'.args.fund_id = f
               /\ \/ returned'.args.recommendation = "REJECT"
                  \/ funds[f].status = "DEPLOYED")
                => /\ returned'.value = FALSE
                   /\ funds'[f] = funds[f]]_vars

\* C23: an allocate_credits_to_fund of a positive amount leaves a total
\* balance that was not negative not negative, and for an agent whose total
\* balance is 0 it returns False and changes nothing.
C23_NoDoubleSpend ==
    [][(Allocating /\ XLt(Zero, returned'.args.amount))
          => /\ ~XLt(TotalBalance(agent_balances, returned'.args.agent_id), Zero)
                  => ~XLt(TotalBalance(agent_balances', returned'.args.agent_id), Zero)
             /\ XEq(TotalBalance(agent_balances, returned'.args.agent_id), Zero)
                  => /\ returned'.value = FALSE
                     /\ UNCHANGED <<entries, agent_balances, funds>>]_vars

\* The agent has put its whole balance into the fund and offers 40 more.
C23_Witness ==
    /\ returned # None
    /\ returned.op = "allocate_credits_to_fund"
    /\ returned.value = FALSE
    /\ returned.args.amount = Fx(40)
    /\ returned.args.fund_id \in DOMAIN funds
    /\ funds[returned.args.fund_id].status = "OPEN"
    /\ Len(funds[returned.args.fund_id].contributions) = 1
    /\ funds[returned.args.fund_id].contributions[1]
          = [agent_id |-> returned.args.agent_id, amount |-> FxD(150, 1234, 0, 0)]
    /\ returned.args.agent_id \in DOMAIN agent_balances
    /\ TotalBalance(agent_balances, returned.args.agent_id) = Zero

\* The calls of the threads that have returned True.
Successes == IF workers = None THEN 0 ELSE workers["t1"].success_count + workers["t2"].success_count

\* k times the amount of one allocation
RECURSIVE Times(_, _)
Times(k, x) == IF k = 0 THEN Zero ELSE FAdd(x, Times(k - 1, x))

\* C24: with threads calling allocate_credits_to_fund for one agent and one
\* fund, the balance of the agent is never below zero, and once the threads
\* have finished with k calls that returned True, the balance of the agent
\* is the initial one minus k times the amount, the balance of the fund
\* account is k times the amount, the ledger holds 2k new entries and
\* audit_ledger passes.
C24_NoLostUpdate ==
    workers # None =>
        /\ ~FLt(TotalBalance(agent_balances, RichAgent), Zero)
        /\ (\A t \in Threads : workers[t].pc = "done") =>
              /\ TotalBalance(agent_balances, RichAgent)
                    = FSub(InitialCapital, Times(Successes, AmountPerAlloc))
              /\ TotalBalance(agent_balances, FundAccount(STRESS_FUND))
                    = Times(Successes, AmountPerAlloc)
              /\ Len(entries) = 2 + 2 * Successes
              /\ AuditLedger(entries, agent_balances).integrity_check = "passed"

(***************************************************************************)
(* Properties of the recalibration.                                        *)
(***************************************************************************)

\* The realized surplus lies within the confidence interval of the pool.
InsideInterval(p, realized_surplus) ==
    /\ FLe(p.confidence_interval[1], realized_surplus)
    /\ FLe(realized_surplus, p.confidence_interval[2])

\* C25: a recalibrate_synergy_model with a realized surplus above the
\* confidence interval of the pool strictly increases synergy_multiplier;
\* with a realized surplus inside the interval it leaves synergy_multiplier
\* and the pattern modifiers as they are; it changes dependency_risk_factor
\* only for a pool with external_dependencies > 0 and a realized surplus
\* other than the predicted one; and for a pool with total_surplus = 0 it
\* returns {} and changes nothing.
C25_MovesOnEvidence ==
    [][/\ \A o \in EvidenceOutcomes :
             RecalibrateSynergyModel(o.surplus_pool, o.realized_surplus) =>
                /\ (/\ o.surplus_pool.total_surplus # Zero
                    /\ FLt(o.surplus_pool.confidence_interval[2], o.realized_surplus))
                     => FLt(synergy_multiplier, synergy_multiplier')
                /\ InsideInterval(o.surplus_pool, o.realized_surplus)
                     => UNCHANGED <<synergy_multiplier, pattern_modifiers>>
                /\ o.surplus_pool.total_surplus = Zero
                     => recalibration' = Returned(NoUpdates) /\ UNCHANGED Parameters
                /\ UNCHANGED dependency_risk_factor
       /\ (Recalibrating /\ recalibration' # recalibration) =>
             /\ UNCHANGED synergy_multiplier
             /\ InsideInterval(recalibration.surplus_pool, recalibration.realized_surplus)
                  => UNCHANGED pattern_modifiers
             /\ dependency_risk_factor' # dependency_risk_factor
                  => /\ ExternalDependenciesOf(recalibration.surplus_pool) > 0
                     /\ recalibration.realized_surplus
                          # recalibration.surplus_pool.total_surplus]_vars

(***************************************************************************)
(* Properties of the serialization.                                        *)
(***************************************************************************)

\* C26: ImpactProjection.from_dict(p.to_dict()) has the task_id, the
\* distribution_mean, the distribution_std, the confidence_interval, the
\* fields of the target vector, the timestamp and the metadata of p, and an
\* effect_chain of the same length with the same vectors in the same order.
C26_RoundTrip ==
    (serialized # None /\ serialized.reconstructed # None) =>
        /\ ~Raised(serialized.reconstructed)
        /\ \A f \in {"task_id", "distribution_mean", "distribution_std",
                      "confidence_interval", "target_vector", "timestamp", "metadata"} :
              serialized.reconstructed[f] = serialized.projection[f]
        /\ Len(serialized.reconstructed.effect_chain)
              = Len(serialized.projection.effect_chain)
        /\ \A i \in 1..Len(serialized.projection.effect_chain) :
              serialized.reconstructed.effect_chain[i]
                = serialized.projection.effect_chain[i]

\* A projection with a chain of three orders, whose dict holds the values
\* of the categories.
C26_Witness ==
    /\ serialized # None
    /\ serialized.reconstructed # None
    /\ serialized.projection.target_vector.category = "RESEARCH"
    /\ serialized.data.target_vector.category = "research"
    /\ Len(serialized.data.effect_chain) = 3
    /\ serialized.data.effect_chain[3].category = "social"
    /\ serialized.reconstructed.effect_chain[3].category = "SOCIAL"
    /\ serialized.reconstructed.metadata = [simulations |-> 100, agent_role |-> "dev"]

(***************************************************************************)
(* The scenario of tests/test_surplus.py.                                  *)
(***************************************************************************)

\* 350 * diversity^0.4 * (1 + interdependence^1.2) * exp(density * 0.2 * 4)
\* / 1.1 with diversity 1, interdependence 1/3 and density 1/6.
ScenarioSurplus ==
    FDiv(FMul(FMul(FMul(Fx(350), FPow(One, FxD(0, 4000, 0, 0))),
                   FAdd(One, FPow(FDiv(One, Fx(3)), FxD(1, 2000, 0, 0)))),
              FExp(FMul(FMul(FDiv(One, Fx(6)), FxD(0, 2000, 0, 0)), Fx(4)))),
         FxD(1, 1000, 0, 0))

\* x and y differ by less than eps.
Near(x, y, eps) == FLt(FAbs(FSub(x, y)), eps)

Upcoming ==
    Normalize(pool.total_surplus,
              NewAllocations(claims, objective_targets, current_allocations))

\* The round about to be recorded changes the variance by less than the
\* tolerance or lies within the tolerance of the objective.
Settles ==
    \/ FLt(FAbs(FSub(CalculateVariance(Upcoming), prev_variance)),
           equilibrium_tolerance)
    \/ FLt(Deviation(Upcoming, objective_targets), equilibrium_tolerance)

\* The discipline of the loop in one step; the calls that return before the
\* loop are left out when proper is TRUE.
SecondRoundOnward(proper) ==
    /\ (pc' = "returned" /\ result'.converged
           /\ (proper => ~Degenerate(pool', claims')))
          => result'.rounds_to_convergence >= 2
    /\ (pc = "loop" /\ pc' # "raised") =>
          IF Len(history) >= 1 /\ Settles
          THEN /\ pc' = "returned"
               /\ result'.converged
               /\ result'.rounds_to_convergence = Len(history) + 1
               /\ Len(result'.history) = Len(history) + 1
          ELSE IF pc' = "returned"
               THEN /\ ~result'.converged
                    /\ result'.rounds_to_convergence = max_iterations
               ELSE /\ pc' = "loop"
                    /\ converged' = FALSE
                    /\ Len(history') = Len(history) + 1

\* C28 as stated: converged = true implies rounds_to_convergence >= 2, the
\* last recorded round is the first one after the first round that meets the
\* test, and no round is recorded after it.
C28_ConvergedAfterTwoRounds == [][SecondRoundOnward(FALSE)]_vars

\* C28 for the calls that enter the loop: a call with claims and a positive
\* total_surplus that reports converged = true has recorded at least 2
\* rounds, its last recorded round is the first one after the first round at
\* which the variance changes by less than the tolerance or the deviation is
\* below it, and the call returns with that round.
C28_FromSecondRound == [][SecondRoundOnward(TRUE)]_vars

\* A session whose first round already lies on the objective and which
\* converges with the second round.
C28_Witness ==
    /\ Negotiated
    /\ result.converged
    /\ result.rounds_to_convergence = 2
    /\ result.history[1].deviation_from_objective = Zero

\* min(1, uncertainty_margin / (marginal_impact_estimate + epsilon))
StatedFlexibility(claim) ==
    LET ratio == FDiv(claim.uncertainty_margin,
                      FAdd(claim.marginal_impact_estimate, FxD(0, 0, 0, 1000)))
    IN  IF FLt(ratio, Fx(1)) THEN ratio ELSE Fx(1)

\* 0.25 * (1 + flexibility - 0.4 * leverage)
StatedVelocity(claim) ==
    FMul(FxD(0, 2500, 0, 0),
         FSub(FAdd(Fx(1), StatedFlexibility(claim)),
              FMul(FxD(0, 4000, 0, 0), claim.dependency_influence_weight)))

\* ... clamped into [0.05, 0.6]
StatedClamp(v) ==
    IF FLt(v, FxD(0, 500, 0, 0)) THEN FxD(0, 500, 0, 0)
    ELSE IF FLt(FxD(0, 6000, 0, 0), v) THEN FxD(0, 6000, 0, 0)
    ELSE v

Between(x, a, b) ==
    \/ FLe(a, x) /\ FLe(x, b)
    \/ FLe(b, x) /\ FLe(x, a)

\* The allocations of the coming round before normalization, by the stated
\* velocity.
StatedStep ==
    [i \in 1..Len(claims) |->
        FAdd(current_allocations[i],
             FMul(StatedClamp(StatedVelocity(claims[i])),
                  FSub(objective_targets[i], current_allocations[i])))]

\* C29: in every round the allocations move by the velocity
\* 0.25 * (1 + flexibility - 0.4 * leverage) clamped into [0.05, 0.6], with
\* flexibility = min(1, uncertainty_margin / (marginal_impact_estimate +
\* epsilon)): what the round stores is the normalization of that step, and
\* before normalization each agent's new allocation lies between its current
\* allocation and its objective target.
C29_StepTowardsTarget ==
    [][(pc = "loop" /\ pc' # "raised") =>
          /\ \A i \in 1..Len(claims) :
                Between(StatedStep[i], current_allocations[i], objective_targets[i])
          /\ IF pc' = "loop"
             THEN current_allocations'
                    = Normalize(pool.total_surplus, StatedStep)
             ELSE result'.final_allocations
                    = RoundedDict(claims, Normalize(pool.total_surplus, StatedStep))]_vars

\* A second round has been recorded for claims of which one moves at the
\* lower end of the clamp and one at an unclamped velocity, both away from
\* their targets before the round.
C29_Witness ==
    /\ pc = "loop"
    /\ Len(history) >= 2
    /\ \E i, j \in 1..Len(claims) :
          /\ FLt(StatedVelocity(claims[i]), FxD(0, 500, 0, 0))
          /\ Velocity(claims[i]) = FxD(0, 500, 0, 0)
          /\ StatedClamp(StatedVelocity(claims[j])) = StatedVelocity(claims[j])
          /\ current_allocations[i] # objective_targets[i]
          /\ current_allocations[j] # objective_targets[j]

\* The dict d has one entry per agent id of the claims, and the entry of
\* each id is the rounded value of the last claim with that id.
LastClaimDecides(d, values) ==
    /\ DOMAIN d = { claims[i].agent_id : i \in 1..Len(claims) }
    /\ \A i \in 1..Len(claims) :
          Deciding(claims, i) => d[claims[i].agent_id] = Round4(values[i])

\* C30: when two claims of a call carry the same agent_id, the allocations
\* of every recorded round, final_allocations and objective_targets hold one
\* value for that id, the one computed for the last claim with that id.
C30_LastClaimShadows ==
    [][(pc = "loop" /\ pc' # "raised" /\ ~DistinctIds(claims)) =>
          IF pc' = "loop"
          THEN /\ LastClaimDecides(history'[Len(history')].allocations,
                                    current_allocations')
               /\ SubSeq(history', 1, Len(history)) = history
          ELSE /\ LastClaimDecides(result'.final_allocations, Upcoming)
               /\ LastClaimDecides(result'.objective_targets, objective_targets)
               /\ LastClaimDecides(
                     result'.history[Len(result'.history)].allocations, Upcoming)
               /\ SubSeq(result'.history, 1, Len(history)) = history]_vars

\* A session of two claims of agent A, of 90 and of 10, has returned after
\* two rounds or more: the one target reported for A is below the equal
\* share, as the target of the claim of 10 is.
C30_Witness ==
    /\ Negotiated
    /\ ~DistinctIds(claims)
    /\ Len(result.history) >= 2
    /\ DOMAIN result.final_allocations = {"A"}
    /\ FLt(result.objective_targets["A"], EqualSplit(pool.total_surplus, 2))

(***************************************************************************)
(* Properties of the returned result.                                      *)
(***************************************************************************)

\* The keys of the output of a session.
OutputKeys ==
    { "final_allocations", "rounds_to_convergence", "converged",
      "final_deviation", "history", "objective_targets" }

\* C31: every result that negotiate_splits returns, the one of a call with
\* no claims or with total_surplus <= 0 included, carries the final
\* allocations, the rounds executed, the converged flag, the final deviation,
\* the round history and the objective targets.
C31_ResultCarriesOutput ==
    pc = "returned" => OutputKeys \subseteq DOMAIN result

\* The rounds of h are numbered 0, 1, 2, ... in the order of recording.
Numbered(h) == \A k \in 1..Len(h) : h[k].round_number = k - 1

\* h is g with one round appended.
Extends(h, g) == Len(h) = Len(g) + 1 /\ SubSeq(h, 1, Len(g)) = g

\* C32: the history of a session is an append-only trail consistent with
\* the result: every round of the loop appends one round and leaves the
\* earlier ones as they are, the returned history holds exactly
\* rounds_to_convergence rounds with consecutive increasing round numbers,
\* and when a round was recorded the allocations of the last round are
\* final_allocations and its deviation is final_deviation.
C32_AppendOnlyTrail ==
    [][/\ (pc = "loop" /\ pc' = "loop") =>
             Extends(history', history) /\ Numbered(history')
       /\ (pc = "loop" /\ pc' = "returned") => Extends(result'.history, history)
       /\ pc' = "returned" =>
             /\ Len(result'.history) = result'.rounds_to_convergence
             /\ Numbered(result'.history)
             /\ IF Len(result'.history) = 0 THEN TRUE
                ELSE /\ result'.history[Len(result'.history)].allocations
                          = result'.final_allocations
                     /\ result'.history[Len(result'.history)].deviation_from_objective
                          = result'.final_deviation]_vars

\* A session has returned three rounds or more away from its targets.
C32_Witness ==
    /\ Negotiated
    /\ result.rounds_to_convergence >= 3
    /\ result.history[3].round_number = 2
    /\ result.final_deviation # Zero
    /\ result.history[1].allocations # result.final_allocations

(***************************************************************************)
(* Properties of the objective targets.                                    *)
(***************************************************************************)

NonNegativeEstimates(cs) ==
    \A i \in 1..Len(cs) : FLe(Zero, cs[i].marginal_impact_estimate)

\* One round of the loop started from the objective targets.
FromTargets ==
    Normalize(pool.total_surplus,
              NewAllocations(claims, objective_targets, objective_targets))

\* x is y, exactly or to 1e-9 of the total surplus.
Same(x, y, exact) ==
    IF exact THEN x = y
    ELSE Within(x, y, FMul(FxD(0, 0, 0, 1000), pool.total_surplus))

\* In the loop the targets sum to the total surplus and a round from the
\* targets gives the targets back, hypothetically in every state of the loop
\* and in fact when the round starts from allocations equal to the targets.
TargetsFixed(exact) ==
    (pc = "loop" /\ \A i \in 1..Len(claims) : FlexDivisor(claims[i]) # Zero) =>
        /\ Same(FSum(objective_targets), pool.total_surplus, exact)
        /\ LET next == FromTargets
           IN  \A i \in 1..Len(claims) : Same(next[i], objective_targets[i], exact)
        /\ (pc' = "loop" /\ current_allocations = objective_targets) =>
              \A i \in 1..Len(claims) :
                  Same(current_allocations'[i], objective_targets[i], exact)

InRange(cs) ==
    \A i \in 1..Len(cs) :
        /\ FLe(Zero, cs[i].marginal_impact_estimate)
        /\ FLe(Zero, cs[i].uncertainty_margin)
        /\ FLe(Zero, cs[i].dependency_influence_weight)
        /\ FLe(cs[i].dependency_influence_weight, One)

\* The deviations recorded in h do not increase.
Settling(h) ==
    \A k \in 2..Len(h) :
        FLe(h[k].deviation_from_objective, h[k - 1].deviation_from_objective)

\* C34: for claims with marginal estimates >= 0, uncertainty margins >= 0
\* and leverage in [0, 1], the deviation from the objective targets recorded
\* in the history never increases from one round to the next, in the loop
\* and in the history that is returned.
C34_DeviationNeverIncreases ==
    [][(pc = "loop" /\ InRange(claims)) =>
          /\ pc' = "loop" => Settling(history')
          /\ pc' = "returned" => Settling(result'.history)]_vars

\* A returned session of claims in range whose recorded deviation fell in
\* each of its first rounds.
C34_Witness ==
    /\ Negotiated
    /\ InRange(claims)
    /\ Len(result.history) >= 3
    /\ FLt(result.history[2].deviation_from_objective,
           result.history[1].deviation_from_objective)
    /\ FLt(result.history[3].deviation_from_objective,
           result.history[2].deviation_from_objective)

(***************************************************************************)
(* Properties of the data flow of the protocol.                            *)
(***************************************************************************)

\* The sum of the amounts credited to agents by the entries, from entry i
\* on, whose provenance names the cluster.
RECURSIVE ClusterCredits(_, _, _)
ClusterCredits(es, cluster_id, i) ==
    IF i > Len(es) THEN Zero
    ELSE IF /\ es[i].entry_type = "CREDIT"
            /\ es[i].agent_id # SYSTEM_ACCOUNT
            /\ es[i].provenance.surplus_event_id = cluster_id
    THEN XAdd(es[i].amount, ClusterCredits(es, cluster_id, i + 1))
    ELSE ClusterCredits(es, cluster_id, i + 1)

Stored(c) ==
    /\ c \in DOMAIN negotiation_results'
    /\ (c \in DOMAIN negotiation_results => negotiation_results'[c] # negotiation_results[c])

\* The replies that refuse a call: the two error records and the empty list.
Refusals ==
    { ErrorReply("No valid projections found for tasks"),
      ErrorReply("Surplus pool not found"), <<>> }

\* C36: the data flow of the protocol is ordered. A step stores a
\* negotiation result for a cluster only if a pool was stored for that
\* cluster before the step, a step appends ledger entries only for a cluster
\* whose negotiation result was stored before the step, and a step that
\* answers with [] or with an error record leaves the ledger, the stored
\* pools and the stored negotiation results as they were.
C36_OrderedFlow ==
    [][/\ \A c \in ClusterIds : Stored(c) => c \in DOMAIN surplus_pools
       /\ \A i \in (Len(entries) + 1)..Len(entries') :
              entries'[i].provenance.surplus_event_id \in DOMAIN negotiation_results
       /\ Len(entries') >= Len(entries)
       /\ (reply' \in Refusals) =>
              UNCHANGED <<entries, agent_balances, surplus_pools, negotiation_results>>]_vars

\* run_negotiation has refused "c2", whose pool was never computed, on a
\* protocol that holds a pool and a result for "c1".
C36_Witness ==
    /\ reply = ErrorReply("Surplus pool not found")
    /\ "c1" \in DOMAIN negotiation_results
    /\ "c1" \in DOMAIN surplus_pools
    /\ "c2" \notin DOMAIN surplus_pools
    /\ "c2" \notin DOMAIN negotiation_results
    /\ entries = <<>>

(***************************************************************************)
(* The balance cache against the entry log.                                *)
(***************************************************************************)

\* sum(e.amount for e in entries if e.agent_id == agent_id and
\* e.domain_context.name == category), from entry i on
RECURSIVE CategorySumFrom(_, _, _, _, _)
CategorySumFrom(es, agent_id, category, i, acc) ==
    IF i > Len(es) THEN acc
    ELSE CategorySumFrom(es, agent_id, category, i + 1,
                         IF es[i].agent_id = agent_id /\ es[i].domain_context = category
                         THEN XAdd(acc, es[i].amount) ELSE acc)

\* sum(e.amount for e in entries if e.agent_id == agent_id), from entry i on
RECURSIVE AccountSumFrom(_, _, _, _)
AccountSumFrom(es, agent_id, i, acc) ==
    IF i > Len(es) THEN acc
    ELSE AccountSumFrom(es, agent_id, i + 1,
                        IF es[i].agent_id = agent_id THEN XAdd(acc, es[i].amount) ELSE acc)

\* The accounts and the categories named by the entries.
Holders == { entries[i].agent_id : i \in 1..Len(entries) }

Contexts == { entries[i].domain_context : i \in 1..Len(entries) }

\* The cache of one account agrees with the log.
CacheAgrees(agent_id) ==
    /\ \A category \in Contexts :
          XEq(CategoryBalance(agent_balances, agent_id, category),
              Round6(CategorySumFrom(entries, agent_id, category, 1, Zero)))
    /\ XEq(TotalBalance(agent_balances, agent_id),
           Round6(AccountSumFrom(entries, agent_id, 1, Zero)))

\* C37: for every account and category the cached balance equals the sum of
\* the amounts of the entries of that account in that category, rounded to
\* 6 decimals, the total of get_agent_balance equals the rounded sum of all
\* the entries of the account, and the cache holds no account and no
\* category without an entry.
C37_CacheAgreesWithLog ==
    /\ \A agent_id \in Holders : CacheAgrees(agent_id)
    /\ DOMAIN agent_balances = Holders
    /\ \A agent_id \in DOMAIN agent_balances :
          DOMAIN agent_balances[agent_id] \subseteq Contexts

\* Every step keeps the entries it found, in their places, and adds at the
\* end only.
EntriesAppendOnly ==
    [][/\ Len(entries') >= Len(entries)
       /\ \A i \in 1..Len(entries) : entries'[i] = entries[i]]_vars

\* The amounts of the entries are numbers of at least the resolution 1e-6
\* of the cache.
Resolved ==
    \A i \in 1..Len(entries) :
        /\ IsFinite(entries[i].amount)
        /\ entries[i].amount = Round6(entries[i].amount)

\* The cache agrees with the log as long as every amount is a number with
\* at most 6 decimals.
CacheAgreesWhenResolved == Resolved => C37_CacheAgreesWithLog

\* C38: whatever amounts allocate_credits_to_fund was called with, every
\* contribution recorded by a fund has an amount above 0, the total_pooled of
\* every fund and the balance of its account FUND_<fund_id> are not
\* negative, and the balance of the calling agent after a call is not above
\* its balance before the call.
C38_NothingMintedByFunding ==
    /\ \A f \in DOMAIN funds :
          /\ \A k \in 1..Len(funds[f].contributions) :
                XLt(Zero, funds[f].contributions[k].amount)
          /\ XLe(Zero, TotalPooled(funds[f]))
          /\ XLe(Zero, TotalBalance(agent_balances, FundAccount(f)))
    /\ (returned # None /\ returned.op = "allocate_credits_to_fund") =>
          XLe(TotalBalance(agent_balances, returned.args.agent_id),
              TotalBalance(returned.before, returned.args.agent_id))

\* The (source, target) transitions of a rule table, in their order.
Transitions(rules) ==
    [s \in DOMAIN rules |-> [i \in 1..Len(rules[s]) |-> rules[s][i][1]]]

\* The last call named a source category without rules, or a target that
\* does not follow the source.
NamesNoRule ==
    \/ rule_call'.source_category \notin DOMAIN causal_rules
    \/ \A i \in 1..Len(causal_rules[rule_call'.source_category]) :
          causal_rules[rule_call'.source_category][i][1] # rule_call'.target_category

\* C39: after every update_causal_rule call, made directly or by
\* recalibrate_forecasting_weights, the probability of every causal rule
\* lies in [0, 1] and its multiplier is at least 0.1, the transitions and
\* their order are those of the new forecasting layer, and a call that names
\* a source category without rules or a target that does not follow the
\* source leaves the rules as they were.
C39_RulesStayBounded ==
    [][/\ \A s \in DOMAIN causal_rules' :
            \A i \in 1..Len(causal_rules'[s]) :
                /\ XLe(Zero, causal_rules'[s][i][2])
                /\ XLe(causal_rules'[s][i][2], One)
                /\ XLe(FxD(0, 1000, 0, 0), causal_rules'[s][i][3])
       /\ Transitions(causal_rules') = Transitions(ConstructedRules)
       /\ (rule_updates' # rule_updates /\ NamesNoRule) => UNCHANGED causal_rules]_vars

\* The multiplier of TECHNICAL -> EFFICIENCY has reached its floor and the
\* probability its ceiling, the rule TECHNICAL -> ECOSYSTEM is as it was
\* constructed, and the last call named a target that follows no rule of
\* its source.
C39_Witness ==
    /\ causal_rules["TECHNICAL"][1] = <<"EFFICIENCY", One, FxD(0, 1000, 0, 0)>>
    /\ causal_rules["TECHNICAL"][2] = ConstructedRules["TECHNICAL"][2]
    /\ rule_call # None
    /\ rule_call.source_category = "TECHNICAL"
    /\ rule_call.target_category = "SOCIAL"
    /\ rule_updates = 3

=============================================================================
